---- MODULE Spec2Model ----
(***************************************************************************)
(* WPS management system: the certificate-expiry classifier of             *)
(* backend/app/main.py and the WPS / WPQR document composers of            *)
(* backend/app/services/pdf_generator.py.                                  *)
(*                                                                         *)
(* Python values are tagged records, so that None, the string 'None', a    *)
(* number and a datetime are different values and formatting one of them   *)
(* (f-string, str()) is a computation.  An ORM object is a function from   *)
(* its attribute names to Python values; a dict is the same.               *)
(***************************************************************************)
EXTENDS Integers, Sequences, FiniteSets, TLC

VARIABLES
    today,          \* date.today(), as a day number
    companies,      \* ids of the stored Company rows
    certificates,   \* WelderCertificate rows: certificate id -> row, or NoRow
    wps_records,    \* WPS rows: id -> ORM object, or NoRow
    wpqr_records,   \* WPQR rows: id -> ORM object, or NoRow
    arg,            \* the argument of the pure function under check
    response,       \* what the last handler returned or raised
    font_files,     \* the files of FONT_DIR: file name -> "missing", "ok" or "broken"
    BODY_FONT,      \* the module global BODY_FONT of pdf_generator.py
    BOLD_FONT,      \* the module global BOLD_FONT of pdf_generator.py
    registered,     \* the module body of pdf_generator.py has run (it was imported)
    requests,       \* the PDF requests in progress: request -> position and fonts read
    logo_url,       \* Company.logo_url: company id -> None or the URL
    logo_files,     \* the URLs of the files in LOGOS_DIR
    logo_uuids      \* how many uuid4 file names were drawn

\* the font state: the font files, the style binding, and the requests that read it
fontvars == <<font_files, BODY_FONT, BOLD_FONT, registered, requests>>

\* the logo state: the logo_url column, the logo files, the file names used
logovars == <<logo_url, logo_files, logo_uuids>>

vars == <<today, companies, certificates, wps_records, wpqr_records, arg, response,
          fontvars, logovars>>

-----------------------------------------------------------------------------
(* Python values *)

None == [t |-> "NoneType"]
Str(s) == [t |-> "str", s |-> s]
Num(n) == [t |-> "int", n |-> n]
\* a float with a whole value
Float(n) == [t |-> "float", n |-> n]
Datetime(d) == [t |-> "datetime", d |-> d]
List(l) == [t |-> "list", l |-> l]
Raise(e) == [t |-> "raise", e |-> e]

IsRaise(v) == v.t = "raise"

\* a raised exception is written "Type: message"; where the type name ends
ExcColon(e) ==
    CHOOSE i \in 1 .. Len(e) - 1 :
        /\ SubSeq(e, i, i + 1) = ": "
        /\ \A j \in 1 .. i - 1 : SubSeq(e, j, j + 1) # ": "
\* type(e).__name__
ExcType(e) == SubSeq(e, 1, ExcColon(e) - 1)
\* str(e): the message without the type name
ExcMessage(e) == SubSeq(e, ExcColon(e) + 2, Len(e))

\* bool(v): None, '', 0 and [] are falsy
Truthy(v) ==
    CASE v.t = "NoneType" -> FALSE
      [] v.t = "str" -> v.s # ""
      [] v.t = "int" -> v.n # 0
      [] v.t = "float" -> v.n # 0
      [] v.t = "list" -> v.l # <<>>
      [] OTHER -> TRUE

\* a getattr that would also replace a null attribute by the default
GetattrNullAsMissing(obj, name, default) ==
    IF name \in DOMAIN obj /\ obj[name] # None THEN obj[name] ELSE default

\* getattr(obj, name, default): the default only when the attribute is missing
Getattr(obj, name, default) ==
    IF name \in DOMAIN obj THEN obj[name] ELSE default

\* dict.get(key, default): the default only when the key is missing
Get(d, key, default) ==
    IF key \in DOMAIN d THEN d[key] ELSE default

NoRow == [t |-> "norow"]
NoResponse == [kind |-> "none"]

-----------------------------------------------------------------------------
(* Fonts: pdf_generator.py _register_fonts, run once by the module body *)

MaxRequests == 2
RequestIds == 1 .. MaxRequests
FontFiles == {"arial.ttf", "arialbd.ttf", "DejaVuSans.ttf", "DejaVuSans-Bold.ttf"}
\* a file is missing, is a font that loads, or exists and fails to load
FontStates == {"missing", "ok", "broken"}
\* the body and the bold face of the three families
ArialFamily == <<"Arial-Unicode", "Arial-Unicode-Bold">>
DejaVuFamily == <<"DejaVuSans", "DejaVuSans-Bold">>
HelveticaFamily == <<"Helvetica", "Helvetica-Bold">>
FontFamilies == {ArialFamily, DejaVuFamily, HelveticaFamily}

\* pdfmetrics.registerFont(TTFont(name, path)) for two files in turn: None, or the
\* exception of the first file that fails to load
registerFonts(files, regular, bold) ==
    IF files[regular] # "ok" THEN Raise("TTFError: " \o regular)
    ELSE IF files[bold] # "ok" THEN Raise("TTFError: " \o bold)
    ELSE None

\* the try block of _register_fonts: the family it assigns, or the exception
register_fonts_try(files) ==
    IF files["arial.ttf"] # "missing" /\ files["arialbd.ttf"] # "missing"
    THEN IF IsRaise(registerFonts(files, "arial.ttf", "arialbd.ttf"))
         THEN registerFonts(files, "arial.ttf", "arialbd.ttf")
         ELSE [t |-> "return", family |-> ArialFamily, warning |-> FALSE]
    ELSE IF files["DejaVuSans.ttf"] # "missing" /\ files["DejaVuSans-Bold.ttf"] # "missing"
    THEN IF IsRaise(registerFonts(files, "DejaVuSans.ttf", "DejaVuSans-Bold.ttf"))
         THEN registerFonts(files, "DejaVuSans.ttf", "DejaVuSans-Bold.ttf")
         ELSE [t |-> "return", family |-> DejaVuFamily, warning |-> FALSE]
    ELSE [t |-> "return", family |-> HelveticaFamily, warning |-> TRUE]

\* _register_fonts without its except clause: the exception leaves the function
\* and the globals keep the defaults of the module
RegisterFontsUncaught(files) ==
    LET r == register_fonts_try(files)
    IN IF IsRaise(r)
       THEN [body |-> HelveticaFamily[1], bold |-> HelveticaFamily[2],
             raised |-> TRUE, warning |-> FALSE]
       ELSE [body |-> r.family[1], bold |-> r.family[2],
             raised |-> FALSE, warning |-> r.warning]

\* _register_fonts: the globals it leaves, and whether an exception left it; the
\* except clause assigns Helvetica and prints a warning
register_fonts_result(files) ==
    LET r == register_fonts_try(files)
    IN IF IsRaise(r)
       THEN [body |-> HelveticaFamily[1], bold |-> HelveticaFamily[2],
             raised |-> FALSE, warning |-> TRUE]
       ELSE [body |-> r.family[1], bold |-> r.family[2],
             raised |-> FALSE, warning |-> r.warning]

\* the font state of a process that imported pdf_generator.py with no font file
\* in FONT_DIR and serves no PDF request
FontsImported ==
    /\ font_files = [f \in FontFiles |-> "missing"]
    /\ BODY_FONT = register_fonts_result(font_files).body
    /\ BOLD_FONT = register_fonts_result(font_files).bold
    /\ registered = TRUE
    /\ requests = [r \in RequestIds |-> [pc |-> "idle"]]

-----------------------------------------------------------------------------
(* Certificate expiry classifier: main.py get_expiring_certificates *)

MaxCerts == 2
MaxTicks == 1
StartDay == 100
CompanyIds == {1, 2}
\* no company has a logo and LOGOS_DIR is empty
NoLogos ==
    /\ logo_url = [c \in CompanyIds |-> None]
    /\ logo_files = {}
    /\ logo_uuids = 0
\* the stored Welder rows: the model keeps one welder and never removes it
WelderIds == {1}
CertIds == 1 .. MaxCerts
CertNumbers == {"NAKS-1", "NAKS-2"}
\* expiry dates giving days_until_expiry -5, 0, 29, 30, 59, 60, 61 on StartDay
ExpiryDates == {StartDay - 5, StartDay, StartDay + 29, StartDay + 30,
                StartDay + 59, StartDay + 60, StartDay + 61}
DaysAhead == {60, 61}

\* the subtraction with its operands exchanged
DaysBetweenSwapped(expiry_date, as_of) == as_of - expiry_date

\* timedelta.days of expiry_date - date.today()
DaysBetween(expiry_date, as_of) == expiry_date - as_of

\* the tiers with inclusive upper boundaries
UrgencyLevelOffByOne(days_until_expiry) ==
    IF days_until_expiry <= 30 THEN "critical"
    ELSE IF days_until_expiry <= 60 THEN "urgent" ELSE "warning"

\* the conditional expression that fills urgency_level
UrgencyLevel(days_until_expiry) ==
    IF days_until_expiry < 30 THEN "critical"
    ELSE IF days_until_expiry < 60 THEN "urgent" ELSE "warning"

\* an if / elif chain with inclusive upper boundaries
UrgencyGroupInclusive(days_until_expiry) ==
    IF days_until_expiry < 0 THEN "critical"
    ELSE IF days_until_expiry <= 30 THEN "critical"
    ELSE IF days_until_expiry <= 60 THEN "urgent" ELSE "warning"

\* the if / elif chain that picks the list the record is appended to
UrgencyGroup(days_until_expiry) ==
    IF days_until_expiry < 0 THEN "critical"
    ELSE IF days_until_expiry < 30 THEN "critical"
    ELSE IF days_until_expiry < 60 THEN "urgent" ELSE "warning"

ExpiringCertificate(id, cert, as_of) ==
    [certificate_id |-> id,
     certificate_number |-> cert.certificate_number,
     expiry_date |-> cert.expiry_date,
     days_until_expiry |-> DaysBetween(cert.expiry_date, as_of),
     urgency_level |-> UrgencyLevel(DaysBetween(cert.expiry_date, as_of))]

\* a query without the company filter
SelectedAnyCompany(company_id, days_ahead) ==
    {id \in CertIds :
        /\ certificates[id] # NoRow
        /\ certificates[id].welder_id \in WelderIds
        /\ certificates[id].expiry_date <= today + days_ahead
        /\ certificates[id].status = "Valid"}

\* the query: rows joined to their welder, of the company, expiring up to the
\* cutoff, still Valid
Selected(company_id, days_ahead) ==
    {id \in CertIds :
        /\ certificates[id] # NoRow
        /\ certificates[id].welder_id \in WelderIds
        /\ certificates[id].company_id = company_id
        /\ certificates[id].expiry_date <= today + days_ahead
        /\ certificates[id].status = "Valid"}

\* the rows of ids (taken in id order up to n) that fall into one group
RECURSIVE GroupOf(_, _, _)
GroupOf(group, ids, n) ==
    IF n = 0 THEN <<>>
    ELSE LET rest == GroupOf(group, ids, n - 1)
             d == DaysBetween(certificates[n].expiry_date, today)
         IN IF n \in ids /\ UrgencyGroup(d) = group
            THEN Append(rest, ExpiringCertificate(n, certificates[n], today))
            ELSE rest

get_expiring_certificates(company_id, days_ahead) ==
    /\ response' =
         IF company_id \notin companies
         THEN [kind |-> "error", status |-> 404, detail |-> "Company not found"]
         ELSE LET ids == Selected(company_id, days_ahead)
              IN [kind |-> "expiring", status |-> 200,
                  company_id |-> company_id, days_ahead |-> days_ahead,
                  as_of |-> today,
                  total_expiring |-> Cardinality(ids),
                  critical |-> GroupOf("critical", ids, MaxCerts),
                  urgent |-> GroupOf("urgent", ids, MaxCerts),
                  warning |-> GroupOf("warning", ids, MaxCerts)]
    /\ UNCHANGED <<today, companies, certificates, wps_records, wpqr_records, arg, fontvars, logovars>>

\* the id the database gives the next row: one past the largest id in use
NextCertId ==
    IF \A id \in CertIds : certificates[id] = NoRow THEN 1
    ELSE 1 + CHOOSE i \in CertIds :
                 /\ certificates[i] # NoRow
                 /\ \A j \in CertIds : certificates[j] # NoRow => j <= i

create_certificate(welder_id, company_id, number, expiry_date) ==
    /\ IF welder_id \notin WelderIds
       THEN /\ response' = [kind |-> "error", status |-> 404, detail |-> "Welder not found"]
            /\ UNCHANGED certificates
       ELSE IF company_id \notin companies
       THEN /\ response' = [kind |-> "error", status |-> 404, detail |-> "Company not found"]
            /\ UNCHANGED certificates
       ELSE IF \E id \in CertIds :
                 /\ certificates[id] # NoRow
                 /\ certificates[id].company_id = company_id
                 /\ certificates[id].certificate_number = number
       THEN /\ response' = [kind |-> "error", status |-> 400, detail |-> "already exists"]
            /\ UNCHANGED certificates
       ELSE /\ NextCertId \in CertIds
            /\ LET id == NextCertId
               IN /\ certificates' = [certificates EXCEPT ![id] =
                        [welder_id |-> welder_id, company_id |-> company_id,
                         certificate_number |-> number,
                         expiry_date |-> expiry_date, status |-> "Valid"]]
                  /\ response' = [kind |-> "json", status |-> 201, id |-> id]
    /\ UNCHANGED <<today, companies, wps_records, wpqr_records, arg, fontvars, logovars>>

delete_certificate(id) ==
    /\ IF certificates[id] = NoRow
       THEN /\ response' = [kind |-> "error", status |-> 404, detail |-> "Certificate not found"]
            /\ UNCHANGED certificates
       ELSE /\ certificates' = [certificates EXCEPT ![id] = NoRow]
            /\ response' = [kind |-> "json", status |-> 200, id |-> id]
    /\ UNCHANGED <<today, companies, wps_records, wpqr_records, arg, fontvars, logovars>>

\* midnight passes
Tick ==
    /\ today < StartDay + MaxTicks
    /\ today' = today + 1
    /\ UNCHANGED <<companies, certificates, wps_records, wpqr_records, arg, response, fontvars, logovars>>

InitCert ==
    /\ today = StartDay
    /\ companies = CompanyIds
    /\ certificates = [id \in CertIds |-> NoRow]
    /\ wps_records = <<>>
    /\ wpqr_records = <<>>
    /\ arg = None
    /\ response = NoResponse
    /\ FontsImported
    /\ NoLogos

NextCert ==
    \/ \E c \in CompanyIds \cup {3}, n \in DaysAhead : get_expiring_certificates(c, n)
    \/ \E c \in CompanyIds, n \in CertNumbers, e \in ExpiryDates :
          create_certificate(1, c, n, e)
    \/ \E w \in {1, 2} : create_certificate(w, 3, "NAKS-1", StartDay)
    \/ \E id \in CertIds : delete_certificate(id)
    \/ Tick

SpecCert == InitCert /\ [][NextCert]_vars

\* every record of an expiring-certificates response
Records(r) ==
    {r.critical[i] : i \in 1 .. Len(r.critical)}
    \cup {r.urgent[i] : i \in 1 .. Len(r.urgent)}
    \cup {r.warning[i] : i \in 1 .. Len(r.warning)}

TierOf(r, rec) ==
    IF \E i \in 1 .. Len(r.critical) : r.critical[i] = rec THEN "critical"
    ELSE IF \E i \in 1 .. Len(r.urgent) : r.urgent[i] = rec THEN "urgent"
    ELSE "warning"

\* C1: every record of an expiring-certificates response with days_until_expiry
\* below 30 (negative included) is critical, with 30 to 59 is urgent and with 60 or
\* more is warning, both in its urgency_level and in the list that holds it.
C1_UrgencyTiers ==
    response.kind = "expiring" =>
        \A rec \in Records(response) :
            LET d == rec.days_until_expiry
                tier == IF d < 30 THEN "critical"
                        ELSE IF d < 60 THEN "urgent" ELSE "warning"
            IN /\ rec.urgency_level = tier
               /\ TierOf(response, rec) = tier

\* the boundary cases -5, 0, 29, 30, 59, 60, 61 are all seen together with their tier
C1_Witness ==
    /\ response.kind = "expiring"
    /\ \E rec \in Records(response) :
          rec.days_until_expiry = 61 /\ rec.urgency_level = "warning"
    /\ \E rec \in Records(response) :
          rec.days_until_expiry \in {-5, 0, 29} /\ rec.urgency_level = "critical"

\* C2: days_until_expiry of every record is its expiry date minus the as-of date of
\* the request, and is negative exactly when the expiry date is before that date.
C2_DaysUntilExpiry ==
    response.kind = "expiring" =>
        \A rec \in Records(response) :
            /\ rec.days_until_expiry + response.as_of = rec.expiry_date
            /\ (rec.days_until_expiry < 0) <=> (rec.expiry_date < response.as_of)

C2_Witness ==
    /\ response.kind = "expiring"
    /\ \E rec \in Records(response) : rec.days_until_expiry < 0
    /\ \E rec \in Records(response) : rec.days_until_expiry > 0

\* C23: an expiring-certificates response holds, in all three groups together, only
\* certificates of the requested company whose expiry date is at most days_ahead
\* days after the request date; with days_ahead = 60 the warning group holds only
\* certificates with days_until_expiry = 60
C23_OnlyRequestedAndDue ==
    [][(response'.kind = "expiring" /\ UNCHANGED <<certificates, today>>) =>
        /\ \A rec \in Records(response') :
              /\ certificates[rec.certificate_id] # NoRow
              /\ certificates[rec.certificate_id].company_id = response'.company_id
              /\ rec.expiry_date <= today + response'.days_ahead
              /\ rec.days_until_expiry <= response'.days_ahead
        /\ response'.days_ahead = 60 =>
              \A i \in 1 .. Len(response'.warning) :
                  response'.warning[i].days_until_expiry = 60]_vars

\* a response for one company while the other company holds a certificate that is
\* due too, and which left that certificate out
C23_Witness ==
    /\ response.kind = "expiring"
    /\ response.total_expiring = 1
    /\ \E id \in CertIds :
          /\ certificates[id] # NoRow
          /\ certificates[id].company_id # response.company_id
          /\ certificates[id].expiry_date <= response.as_of + response.days_ahead
          /\ \A rec \in Records(response) : rec.certificate_id # id

\* the groups of an expiring-certificates response
UrgencyGroups == {"critical", "urgent", "warning"}

\* where a certificate appears in a response: the group and the place in it
Places(r, id) ==
    {<<g, i>> \in UrgencyGroups \X (1 .. MaxCerts) :
        i <= Len(r[g]) /\ r[g][i].certificate_id = id}

\* C27: in an expiring-certificates response every certificate appears in exactly one
\* of the groups critical, urgent and warning, once; that group is the one its
\* urgency_level names; total_expiring is the sum of the three group sizes
C27_GroupsPartition ==
    response.kind = "expiring" =>
        /\ \A g \in UrgencyGroups : \A i \in 1 .. Len(response[g]) :
              /\ response[g][i].urgency_level = g
              /\ Cardinality(Places(response, response[g][i].certificate_id)) = 1
        /\ response.total_expiring =
              Len(response.critical) + Len(response.urgent) + Len(response.warning)

\* two certificates selected, in two different groups
C27_Witness ==
    /\ response.kind = "expiring"
    /\ response.total_expiring = 2
    /\ Cardinality({g \in UrgencyGroups : response[g] # <<>>}) = 2

-----------------------------------------------------------------------------
(* Formatting, dates and strings *)

\* a dict literal: the sequence of its <<key, value>> items
Dict(items) ==
    [k \in {items[i][1] : i \in 1 .. Len(items)} |->
        items[CHOOSE i \in 1 .. Len(items) : items[i][1] = k][2]]

MonthLen == <<31, 28, 31, 30, 31, 30, 31, 31, 30, 31, 30, 31>>

\* the month and the day of the month of day number n (day 1 is 1 January)
RECURSIVE MonthOf(_, _)
MonthOf(n, m) == IF n <= MonthLen[m] THEN m ELSE MonthOf(n - MonthLen[m], m + 1)

RECURSIVE DayOf(_, _)
DayOf(n, m) == IF n <= MonthLen[m] THEN n ELSE DayOf(n - MonthLen[m], m + 1)

Pad2(n) == IF n < 10 THEN "0" \o ToString(n) ELSE ToString(n)

\* datetime.strftime('%d.%m.%Y')
Strftime(d) == Str(Pad2(DayOf(d, 1)) \o "." \o Pad2(MonthOf(d, 1)) \o ".2026")

\* datetime.isoformat() of a date, and str(datetime)
IsoFormat(d) == "2026-" \o Pad2(MonthOf(d, 1)) \o "-" \o Pad2(DayOf(d, 1))

\* v.strftime(...): only a datetime has the method
StrftimeOf(v) ==
    IF v.t = "datetime" THEN Strftime(v.d)
    ELSE Raise("AttributeError: '" \o v.t \o "' object has no attribute 'strftime'")

\* str(v), and {v} in an f-string
Format(v) ==
    CASE v.t = "NoneType" -> "None"
      [] v.t = "str" -> v.s
      [] v.t = "int" -> ToString(v.n)
      [] v.t = "float" -> ToString(v.n) \o ".0"
      [] v.t = "datetime" -> IsoFormat(v.d) \o " 00:00:00"
      [] OTHER -> "[]"

\* sep.join(l)
RECURSIVE Join(_, _)
Join(sep, l) ==
    IF l = <<>> THEN ""
    ELSE IF Len(l) = 1 THEN l[1]
    ELSE l[1] \o sep \o Join(sep, Tail(l))

PositionNames == {"PA", "PB", "PC"}
PositionLists ==
    {<<a>> : a \in PositionNames} \cup {<<a, b>> : a, b \in PositionNames}
        \cup {<<a, b, c>> : a, b, c \in PositionNames}

\* s.split(','): the parts whose join with ',' is s; a text without comma is one part
SplitComma(s) ==
    IF \E l \in PositionLists : Join(",", l) = s
    THEN CHOOSE l \in PositionLists : Join(",", l) = s
    ELSE <<s>>

\* v.split(','): only a str has the method
SplitOf(v) ==
    IF v.t = "str" THEN List(SplitComma(v.s))
    ELSE Raise("AttributeError: '" \o v.t \o "' object has no attribute 'split'")

\* s.upper() on the texts the model stores
UpperText(s) ==
    CASE s \in {"pass", "Pass", "PASS"} -> "PASS"
      [] s \in {"fail", "Fail", "FAIL"} -> "FAIL"
      [] s \in {"qualified", "Qualified", "QUALIFIED"} -> "QUALIFIED"
      [] s \in {"not qualified", "Not Qualified", "NOT QUALIFIED"} -> "NOT QUALIFIED"
      [] s \in {"pending", "Pending", "PENDING"} -> "PENDING"
      [] s \in {"draft", "Draft", "DRAFT"} -> "DRAFT"
      [] s \in {"active", "Active", "ACTIVE"} -> "ACTIVE"
      [] OTHER -> s

\* the characters of a text, as iterating over a str gives them
Chars(s) == [i \in 1 .. Len(s) |-> SubSeq(s, i, i)]

\* sep.join(v): v is iterated, a list by its items and a str by its characters
JoinOf(sep, v) ==
    IF v.t = "list" THEN Str(Join(sep, v.l))
    ELSE IF v.t = "str" THEN Str(Join(sep, Chars(v.s)))
    ELSE Raise("TypeError: can only join an iterable")

\* v.upper(): only a str has the method
UpperOf(v) ==
    IF v.t = "str" THEN Str(UpperText(v.s))
    ELSE Raise("AttributeError: '" \o v.t \o "' object has no attribute 'upper'")

\* the first exception a sequence of evaluated values holds, or None
RECURSIVE FirstRaise(_)
FirstRaise(vs) ==
    IF vs = <<>> THEN None
    ELSE IF IsRaise(vs[1]) THEN vs[1] ELSE FirstRaise(Tail(vs))

-----------------------------------------------------------------------------
(* WPS rows: models/wps.py, schemas/wps.py, main.py create_wps / update_wps *)

MaxWps == 1
WpsIds == 1 .. MaxWps
WpsNumbers == {"WPS-001"}

WPSColumns ==
    {"id", "company_id", "wps_number", "revision", "title", "welding_process",
     "base_material_spec", "base_material_grade", "base_material_thickness_min",
     "base_material_thickness_max", "filler_material_spec",
     "filler_material_classification", "filler_material_diameter",
     "welding_positions", "joint_type", "joint_preparation", "current_type",
     "current_range_min", "current_range_max", "voltage_range_min",
     "voltage_range_max", "travel_speed_min", "travel_speed_max",
     "preheat_temp_min", "preheat_temp_max", "interpass_temp_max", "pwht_required",
     "pwht_temperature", "pwht_time", "shielding_gas_composition", "gas_flow_rate",
     "status", "qualified_by_wpqr", "approved_by", "approved_date", "created_at",
     "updated_at"}

\* the columns of WPS that are nullable=False
WPSRequired == {"company_id", "wps_number", "welding_process"}

\* a WPSCreate payload: the required fields, and the optional ones left null or
\* filled group by group
WPSCreate(company_id, number, text, ranges, gas, positions) ==
    Dict(<< <<"company_id", Num(company_id)>>, <<"wps_number", Str(number)>>,
            <<"revision", Str("0")>>, <<"welding_process", Str("GMAW")>>,
            <<"status", Str("Draft")>>, <<"welding_positions", positions>> >>)
    @@ (IF text
        THEN Dict(<< <<"title", Str("Butt weld of plates")>>,
                     <<"base_material_spec", Str("GOST 19281")>>,
                     <<"base_material_grade", Str("09G2S")>>,
                     <<"filler_material_spec", Str("ISO 14341")>>,
                     <<"filler_material_classification", Str("G3Si1")>>,
                     <<"filler_material_diameter", Str("1.2")>>,
                     <<"joint_type", Str("BW")>>, <<"current_type", Str("DC+")>>,
                     <<"qualified_by_wpqr", Str("WPQR-001")>>,
                     <<"approved_by", Str("Chief welder")>>,
                     <<"approved_date", Datetime(StartDay - 5)>> >>)
        ELSE <<>>)
    @@ (IF ranges # "none"
        THEN Dict(<< <<"base_material_thickness_min", Float(3)>>,
                     <<"current_range_min", Num(120)>>,
                     <<"voltage_range_min", Float(18)>>,
                     <<"travel_speed_min", Float(20)>>,
                     <<"preheat_temp_min", Num(50)>> >>)
        ELSE <<>>)
    @@ (IF ranges = "both"
        THEN Dict(<< <<"base_material_thickness_max", Float(20)>>,
                     <<"current_range_max", Num(180)>>,
                     <<"voltage_range_max", Float(24)>>,
                     <<"travel_speed_max", Float(30)>>,
                     <<"preheat_temp_max", Num(100)>>,
                     <<"interpass_temp_max", Num(250)>>,
                     <<"pwht_temperature", Num(600)>>, <<"pwht_time", Float(2)>> >>)
        ELSE <<>>)
    @@ (IF gas
        THEN Dict(<< <<"shielding_gas_composition", Str("82% Ar + 18% CO2")>>,
                     <<"gas_flow_rate", Float(15)>> >>)
        ELSE <<>>)

\* WPSModel(**payload) after commit and refresh: every column of the row, null
\* where the payload has none and the column has no default
WPSModel(id, payload) ==
    [k \in WPSColumns |->
        IF k = "id" THEN Num(id)
        ELSE IF k = "created_at" THEN Datetime(today)
        ELSE IF k = "pwht_required" THEN Num(0)
        ELSE IF k \in DOMAIN payload THEN payload[k] ELSE None]

\* the id the database gives the next row: one past the largest id in use
NextWpsId ==
    IF \A id \in DOMAIN wps_records : wps_records[id] = NoRow THEN 1
    ELSE 1 + CHOOSE i \in DOMAIN wps_records :
                 /\ wps_records[i] # NoRow
                 /\ \A j \in DOMAIN wps_records : wps_records[j] # NoRow => j <= i

create_wps(payload) ==
    /\ IF payload["company_id"].n \notin companies
       THEN /\ response' = [kind |-> "error", status |-> 404, detail |-> "Company not found"]
            /\ UNCHANGED wps_records
       ELSE IF \E id \in DOMAIN wps_records :
                 /\ wps_records[id] # NoRow
                 /\ wps_records[id]["company_id"] = payload["company_id"]
                 /\ wps_records[id]["wps_number"] = payload["wps_number"]
       THEN /\ response' = [kind |-> "error", status |-> 400, detail |-> "already exists"]
            /\ UNCHANGED wps_records
       ELSE /\ NextWpsId \in DOMAIN wps_records
            /\ wps_records' = [wps_records EXCEPT ![NextWpsId] = WPSModel(NextWpsId, payload)]
            /\ response' = [kind |-> "json", status |-> 201]
    /\ UNCHANGED <<today, companies, certificates, wpqr_records, arg, fontvars, logovars>>

\* the fields of the response model WPS that are not Optional
WPSResponseRequired == {"wps_number", "revision", "welding_process", "status"}

\* update_wps with a WPSUpdate payload that sets one field (exclude_unset keeps an
\* explicit null); the commit fails on a null in a NOT NULL column, and a committed
\* null in a field the response model requires fails the response only
update_wps(id, field, value) ==
    /\ IF wps_records[id] = NoRow
       THEN /\ response' = [kind |-> "error", status |-> 404, detail |-> "WPS not found"]
            /\ UNCHANGED wps_records
       ELSE IF field \in WPSRequired /\ value = None
       THEN /\ response' = [kind |-> "error", status |-> 500,
                            detail |-> "Internal server error: IntegrityError"]
            /\ UNCHANGED wps_records
       ELSE /\ wps_records' = [wps_records EXCEPT ![id][field] = value]
            /\ response' =
                   IF field \in WPSResponseRequired /\ value = None
                   THEN [kind |-> "error", status |-> 500,
                         detail |-> "Internal server error: ResponseValidationError"]
                   ELSE [kind |-> "json", status |-> 200]
    /\ UNCHANGED <<today, companies, certificates, wpqr_records, arg, fontvars, logovars>>

\* delete_wps: the row goes, and the WPQR rows that referred to it keep a null wps_id
\* (the relationship WPS.wpqr_records has no delete cascade)
delete_wps(id) ==
    /\ IF wps_records[id] = NoRow
       THEN /\ response' = [kind |-> "error", status |-> 404, detail |-> "WPS not found"]
            /\ UNCHANGED <<wps_records, wpqr_records>>
       ELSE /\ wps_records' = [wps_records EXCEPT ![id] = NoRow]
            /\ wpqr_records' =
                   [q \in DOMAIN wpqr_records |->
                       IF wpqr_records[q] # NoRow /\ wpqr_records[q]["wps_id"] = Num(id)
                       THEN [wpqr_records[q] EXCEPT !["wps_id"] = None]
                       ELSE wpqr_records[q]]
            /\ response' = [kind |-> "json", status |-> 200]
    /\ UNCHANGED <<today, companies, certificates, arg, fontvars, logovars>>

\* the Company row of an id: its name is never null, its address may be
CompanyRow(id) ==
    Dict(<< <<"id", Num(id)>>, <<"name", Str("Company " \o ToString(id))>>,
            <<"address", IF id = 1 THEN Str("1 Weld Street") ELSE None>> >>)

-----------------------------------------------------------------------------
(* WPS document: pdf_generator.py generate_wps_pdf and WPSPDFGenerator *)

\* a date attribute as the detailed mappings format it:
\* getattr(o, name, now).strftime(...) if getattr(o, name, None) else default
DateOrDefault(o, name, now, default) ==
    IF Truthy(Getattr(o, name, None))
    THEN StrftimeOf(Getattr(o, name, Datetime(now)))
    ELSE default

\* the wps_data dict the endpoint builds from the WPS row
wps_data_of(wps, now) ==
    Dict(<<
        <<"wps_number", Getattr(wps, "wps_number", Str("N/A"))>>,
        <<"title", Getattr(wps, "title", Str("N/A"))>>,
        <<"revision", Getattr(wps, "revision", Str("0"))>>,
        <<"date_prepared", Strftime(now)>>,
        <<"date_approved", DateOrDefault(wps, "approved_date", now, Strftime(now))>>,
        <<"welding_code", Str("ISO 15614")>>,
        <<"welding_process", Getattr(wps, "welding_process", Str("N/A"))>>,
        <<"welding_process_type", Getattr(wps, "welding_process", Str("N/A"))>>,
        <<"welding_positions",
            IF Truthy(Getattr(wps, "welding_positions", Str("")))
            THEN SplitOf(Getattr(wps, "welding_positions", Str("")))
            ELSE List(<<>>)>>,
        <<"joint_design", Getattr(wps, "joint_type", Str("N/A"))>>,
        <<"backing_type", Str("None")>>,
        <<"base_metal_specification", Getattr(wps, "base_material_spec", Str("N/A"))>>,
        <<"base_metal_type_grade", Getattr(wps, "base_material_grade", Str("N/A"))>>,
        <<"base_metal_p_number", Str("N/A")>>,
        <<"base_metal_group_number", Str("N/A")>>,
        <<"thickness_range_min", Getattr(wps, "base_material_thickness_min", Num(0))>>,
        <<"thickness_range_max", Getattr(wps, "base_material_thickness_max", Num(0))>>,
        <<"filler_metal_specification", Getattr(wps, "filler_material_spec", Str("N/A"))>>,
        <<"filler_metal_classification",
            Getattr(wps, "filler_material_classification", Str("N/A"))>>,
        <<"filler_metal_f_number", Str("N/A")>>,
        <<"filler_metal_a_number", Str("N/A")>>,
        <<"filler_metal_diameter", Getattr(wps, "filler_material_diameter", Str("N/A"))>>,
        <<"filler_metal_trade_name", Str("N/A")>>,
        <<"current_type", Getattr(wps, "current_type", Str("N/A"))>>,
        <<"amperage_range_min", Getattr(wps, "current_range_min", Num(0))>>,
        <<"amperage_range_max", Getattr(wps, "current_range_max", Num(0))>>,
        <<"voltage_range_min", Getattr(wps, "voltage_range_min", Num(0))>>,
        <<"voltage_range_max", Getattr(wps, "voltage_range_max", Num(0))>>,
        <<"travel_speed_min", Getattr(wps, "travel_speed_min", Num(0))>>,
        <<"travel_speed_max", Getattr(wps, "travel_speed_max", Num(0))>>,
        <<"shielding_gas_type", Str("Mixed Gas")>>,
        <<"shielding_gas_composition", Getattr(wps, "shielding_gas_composition", Str(""))>>,
        <<"shielding_gas_flow_rate", Getattr(wps, "gas_flow_rate", Str("N/A"))>>,
        <<"preheat_temp_min", Getattr(wps, "preheat_temp_min", Num(0))>>,
        <<"preheat_temp_max", Getattr(wps, "preheat_temp_max", Num(0))>>,
        <<"interpass_temp_min", Getattr(wps, "interpass_temp_max", Num(0))>>,
        <<"interpass_temp_max", Getattr(wps, "interpass_temp_max", Num(0))>>,
        <<"pwht_temperature", Getattr(wps, "pwht_temperature", Str("N/A"))>>,
        <<"pwht_time", Getattr(wps, "pwht_time", Str("N/A"))>>,
        <<"technique", Str("Standard welding technique as per procedure")>>,
        <<"cleaning", Str("Wire brush and solvent cleaning")>>,
        <<"remarks", Getattr(wps, "qualified_by_wpqr", Str("No additional remarks"))>>,
        <<"status", Getattr(wps, "status", Str("Draft"))>>,
        <<"prepared_by", Str("Engineering Department")>>,
        <<"approved_by", Getattr(wps, "approved_by", Str("N/A"))>>
    >>)

\* the company_data dict both endpoints build from the Company row
company_data_of(company) ==
    Dict(<< <<"name", Getattr(company, "name", Str("Company Name"))>>,
            <<"address", Getattr(company, "address", Str("Address not specified"))>> >>)

\* f"{d.get(lo, 0)} - {d.get(hi, 0)}": a range cell
RangeCell(d, lo, hi) ==
    Str(Format(Get(d, lo, Num(0))) \o " - " \o Format(Get(d, hi, Num(0))))

\* a table block: its name in the story and its rows of cells
Table(name, rows) == [t |-> "Table", name |-> name, rows |-> rows]

create_wps_header(wps_data, company_data, now) ==
    LET address_str == IF Truthy(Get(company_data, "address", None))
                       THEN company_data["address"]
                       ELSE Str("Address not specified")
    IN Table("header", <<
        << Str(Format(Get(company_data, "name", Str("Company Name")))),
           Str("WELDING PROCEDURE SPECIFICATION"),
           Str("WPS No: " \o Format(Get(wps_data, "wps_number", Str("N/A")))) >>,
        << address_str,
           Str(Format(Get(wps_data, "title", Str("WPS Title")))),
           Str("Rev: " \o Format(Get(wps_data, "revision", Str("0")))) >>,
        << Str(""),
           Str("Code: " \o Format(Get(wps_data, "welding_code", Str("N/A")))),
           Str("Date: " \o Format(Get(wps_data, "date_prepared", Strftime(now)))) >> >>)

\* the 'WELDING POSITIONS' cell:
\* ', '.join(d.get('welding_positions', [])) if d.get('welding_positions') else 'N/A'
PositionsCell(wps_data) ==
    IF Truthy(Get(wps_data, "welding_positions", None))
    THEN JoinOf(", ", Get(wps_data, "welding_positions", List(<<>>)))
    ELSE Str("N/A")

create_wps_basic_info(wps_data) ==
    Table("basic_info", <<
        << Str("WELDING PROCESS"), Str("WELDING POSITIONS"), Str("JOINT DESIGN") >>,
        << Get(wps_data, "welding_process", Str("N/A")),
           PositionsCell(wps_data),
           Get(wps_data, "joint_design", Str("N/A")) >>,
        << Str("PROCESS TYPE"), Str("BACKING"), Str("CLEANING METHOD") >>,
        << Get(wps_data, "welding_process_type", Str("N/A")),
           Get(wps_data, "backing_type", Str("N/A")),
           Get(wps_data, "cleaning", Str("Wire brush")) >> >>)

create_wps_base_materials(wps_data) ==
    Table("base_materials", <<
        << Str("BASE MATERIALS") >>,
        << Str("Specification"), Str("Type/Grade"), Str("P-Number"),
           Str("Group Number"), Str("Thickness Range (mm)") >>,
        << Get(wps_data, "base_metal_specification", Str("N/A")),
           Get(wps_data, "base_metal_type_grade", Str("N/A")),
           Get(wps_data, "base_metal_p_number", Str("N/A")),
           Get(wps_data, "base_metal_group_number", Str("N/A")),
           RangeCell(wps_data, "thickness_range_min", "thickness_range_max") >> >>)

create_wps_filler_materials(wps_data) ==
    Table("filler_materials", <<
        << Str("FILLER MATERIALS") >>,
        << Str("Specification"), Str("Classification"), Str("F-Number"),
           Str("A-Number"), Str("Diameter (mm)"), Str("Trade Name") >>,
        << Get(wps_data, "filler_metal_specification", Str("N/A")),
           Get(wps_data, "filler_metal_classification", Str("N/A")),
           Get(wps_data, "filler_metal_f_number", Str("N/A")),
           Get(wps_data, "filler_metal_a_number", Str("N/A")),
           Str(Format(Get(wps_data, "filler_metal_diameter", Str("N/A")))),
           Get(wps_data, "filler_metal_trade_name", Str("N/A")) >> >>)

\* the 'Shielding Gas' cell: f"{type} {composition}".strip()
ShieldingGasCell(wps_data) ==
    LET type == Format(Get(wps_data, "shielding_gas_type", Str("N/A")))
        composition == Format(Get(wps_data, "shielding_gas_composition", Str("")))
    IN Str(IF composition = "" THEN type ELSE type \o " " \o composition)

create_wps_welding_parameters(wps_data) ==
    Table("welding_parameters", <<
        << Str("WELDING PARAMETERS") >>,
        << Str("Current Type"), Str("Amperage (A)"), Str("Voltage (V)"),
           Str("Travel Speed (mm/min)"), Str("Heat Input (kJ/mm)") >>,
        << Get(wps_data, "current_type", Str("N/A")),
           RangeCell(wps_data, "amperage_range_min", "amperage_range_max"),
           RangeCell(wps_data, "voltage_range_min", "voltage_range_max"),
           RangeCell(wps_data, "travel_speed_min", "travel_speed_max"),
           Str("As Required") >>,
        << Str("Shielding Gas"), Str("Gas Flow (L/min)"), Str("Preheat (C)"),
           Str("Interpass (C)"), Str("PWHT") >>,
        << ShieldingGasCell(wps_data),
           Str(Format(Get(wps_data, "shielding_gas_flow_rate", Str("N/A")))),
           RangeCell(wps_data, "preheat_temp_min", "preheat_temp_max"),
           RangeCell(wps_data, "interpass_temp_min", "interpass_temp_max"),
           IF Truthy(Get(wps_data, "pwht_temperature", None))
           THEN Str(Format(Get(wps_data, "pwht_temperature", Str("N/A"))) \o "C / "
                    \o Format(Get(wps_data, "pwht_time", Str("N/A"))) \o "h")
           ELSE Str("None") >> >>)

\* the paragraphs of the free-text section; the text is handed to Paragraph as it is
create_wps_technique_notes(wps_data) ==
    [t |-> "Paragraphs", name |-> "technique_notes",
     rows |-> << << Str("WELDING TECHNIQUE"),
                    Get(wps_data, "technique",
                        Str("Standard welding technique as per procedure.")) >>,
                 << Str("REMARKS"),
                    Get(wps_data, "remarks", Str("No additional remarks.")) >> >>]

create_wps_signatures(wps_data, now) ==
    LET status == UpperOf(Get(wps_data, "status", Str("Draft")))
    IN IF IsRaise(status) THEN status
       ELSE Table("signatures", <<
               << Str("PREPARED BY"), Str("APPROVED BY"), Str("DATE") >>,
               << Get(wps_data, "prepared_by", Str("")),
                  Get(wps_data, "approved_by", Str("")),
                  Get(wps_data, "date_approved", Strftime(now)) >>,
               << Str("Signature: ________________"),
                  Str("Signature: ________________"),
                  Str("Status: " \o status.s) >> >>)

\* WPSPDFGenerator.generate_wps_pdf: the story in order (spacers left out), or the
\* first exception a block raises
\* a build that would hand back the blocks laid out before the one that failed
RECURSIVE BlocksBeforeRaise(_)
BlocksBeforeRaise(vs) ==
    IF vs = <<>> \/ IsRaise(vs[1]) THEN <<>>
    ELSE <<vs[1]>> \o BlocksBeforeRaise(Tail(vs))

GenerateWpsPdfPartial(wps_data, company_data, now) ==
    List(BlocksBeforeRaise(<< create_wps_header(wps_data, company_data, now),
                              create_wps_basic_info(wps_data),
                              create_wps_base_materials(wps_data),
                              create_wps_filler_materials(wps_data),
                              create_wps_welding_parameters(wps_data),
                              create_wps_technique_notes(wps_data),
                              create_wps_signatures(wps_data, now) >>))

WPSPDFGenerator_generate_wps_pdf(wps_data, company_data, now) ==
    LET story == << create_wps_header(wps_data, company_data, now),
                    create_wps_basic_info(wps_data),
                    create_wps_base_materials(wps_data),
                    create_wps_filler_materials(wps_data),
                    create_wps_welding_parameters(wps_data),
                    create_wps_technique_notes(wps_data),
                    create_wps_signatures(wps_data, now) >>
    IN IF FirstRaise(story) # None THEN FirstRaise(story) ELSE List(story)

\* the except clause of the pdf endpoints: every exception becomes a 500 whose only
\* content is the detail text; generator names the document builder that had been
\* called when the exception was raised ("none": it was not reached), company the
\* Company row it was given
PdfError(route, id, exc, text) ==
    [kind |-> "error", route |-> route, id |-> id, status |-> 500, exc |-> exc,
     detail |-> "Error generating PDF: " \o text,
     generator |-> "none", company |-> None]

\* the same except clause reached by an exception raised inside a document builder
GeneratorError(route, id, exc, text, generator, company) ==
    [PdfError(route, id, exc, text) EXCEPT !.generator = generator, !.company = company]

\* the values of a dict in some order
RECURSIVE ValuesOf(_, _)
ValuesOf(d, keys) ==
    IF keys = {} THEN <<>>
    ELSE LET k == CHOOSE x \in keys : TRUE
         IN <<d[k]>> \o ValuesOf(d, keys \ {k})

\* GET /api/pdf/wps/{wps_id} from its second query on: wps is the row the first
\* query returned
wps_pdf_response(wps_id, wps) ==
    IF wps["company_id"].n \notin companies
    THEN PdfError("wps", wps_id, "HTTPException", "404: Company not found")
    ELSE LET company == CompanyRow(wps["company_id"].n)
             wps_data == wps_data_of(wps, today)
             company_data == company_data_of(company)
             failed == FirstRaise(ValuesOf(wps_data, DOMAIN wps_data))
         IN IF failed # None
            THEN PdfError("wps", wps_id, ExcType(failed.e), ExcMessage(failed.e))
            ELSE LET pdf_content ==
                       WPSPDFGenerator_generate_wps_pdf(wps_data, company_data, today)
                 IN IF IsRaise(pdf_content)
                    THEN GeneratorError("wps", wps_id, ExcType(pdf_content.e),
                                        ExcMessage(pdf_content.e),
                                        "WPSPDFGenerator", company)
                    ELSE [kind |-> "pdf", route |-> "wps", id |-> wps_id,
                          status |-> 200, media_type |-> "application/pdf",
                          filename |-> "WPS_" \o Format(wps["wps_number"]) \o ".pdf",
                          record |-> wps, data |-> wps_data,
                          story |-> pdf_content.l,
                          generator |-> "WPSPDFGenerator", company |-> company]

\* GET /api/pdf/wps/{wps_id}, its queries and the build taken in one step
generate_wps_pdf(wps_id) ==
    /\ response' =
        IF wps_id \notin WpsIds \/ wps_records[wps_id] = NoRow
        THEN PdfError("wps", wps_id, "HTTPException", "404: WPS not found")
        ELSE wps_pdf_response(wps_id, wps_records[wps_id])
    /\ UNCHANGED <<today, companies, certificates, wps_records, wpqr_records, arg, fontvars, logovars>>

InitWps ==
    /\ today = StartDay
    /\ companies = CompanyIds
    /\ certificates = [id \in CertIds |-> NoRow]
    /\ wps_records = [id \in WpsIds |-> NoRow]
    /\ wpqr_records = <<>>
    /\ arg = None
    /\ response = NoResponse
    /\ FontsImported
    /\ NoLogos

NextWps ==
    \/ \E c \in {1, 3}, n \in WpsNumbers, text \in BOOLEAN,
          ranges \in {"none", "min", "both"}, gas \in BOOLEAN,
          positions \in {None, Str("PA,PB")} :
          create_wps(WPSCreate(c, n, text, ranges, gas, positions))
    \/ \E id \in WpsIds :
          \/ update_wps(id, "status", None)
          \/ update_wps(id, "status", Str("Active"))
          \/ update_wps(id, "title", None)
          \/ update_wps(id, "wps_number", None)
          \/ update_wps(id, "wps_number", Str(""))
    \/ \E id \in WpsIds : delete_wps(id)
    \/ \E id \in WpsIds \cup {MaxWps + 1} : generate_wps_pdf(id)
    \/ Tick

SpecWps == InitWps /\ [][NextWps]_vars

\* the keys of the canonical WPS field set: what the composer reads from wps_data
WPSFields ==
    {"wps_number", "title", "revision", "date_prepared", "date_approved",
     "welding_code", "welding_process", "welding_process_type", "welding_positions",
     "joint_design", "backing_type", "base_metal_specification",
     "base_metal_type_grade", "base_metal_p_number", "base_metal_group_number",
     "thickness_range_min", "thickness_range_max", "filler_metal_specification",
     "filler_metal_classification", "filler_metal_f_number", "filler_metal_a_number",
     "filler_metal_diameter", "filler_metal_trade_name", "current_type",
     "amperage_range_min", "amperage_range_max", "voltage_range_min",
     "voltage_range_max", "travel_speed_min", "travel_speed_max",
     "shielding_gas_type", "shielding_gas_composition", "shielding_gas_flow_rate",
     "preheat_temp_min", "preheat_temp_max", "interpass_temp_min",
     "interpass_temp_max", "pwht_temperature", "pwht_time", "technique", "cleaning",
     "remarks", "status", "prepared_by", "approved_by"}

\* C3: in every generated document the canonical mapping holds every canonical
\* field, and no field's value is null: a field without a source value carries
\* its placeholder or default.
C3_DefaultComplete ==
    (response.kind = "pdf" /\ response.route = "wps") =>
        \A k \in WPSFields :
            /\ k \in DOMAIN response.data
            /\ response.data[k] # None

\* the range cells of the WPS story: block, row, column, and the two columns of the
\* row that hold the bounds
WPSRangeCells ==
    { <<3, 3, 5, "base_material_thickness_min", "base_material_thickness_max">>,
      <<5, 3, 2, "current_range_min", "current_range_max">>,
      <<5, 3, 3, "voltage_range_min", "voltage_range_max">>,
      <<5, 3, 4, "travel_speed_min", "travel_speed_max">>,
      <<5, 5, 3, "preheat_temp_min", "preheat_temp_max">>,
      <<5, 5, 4, "interpass_temp_max", "interpass_temp_max">> }

\* C7: a range cell of the WPS document reads "<min> - <max>" when both bounds have
\* a value, and when neither bound has one it is a 'not required' indicator, never
\* "0 - 0" or "None - None".
C7_RangeCells ==
    (response.kind = "pdf" /\ response.route = "wps") =>
        \A c \in WPSRangeCells :
            LET cell == response.story[c[1]].rows[c[2]][c[3]]
                lo == response.record[c[4]]
                hi == response.record[c[5]]
            IN /\ (lo # None /\ hi # None) =>
                      cell = Str(Format(lo) \o " - " \o Format(hi))
               /\ (lo = None /\ hi = None) =>
                      cell \notin {Str("0 - 0"), Str("None - None")}

\* the text s holds the word None (after one of the prefixes a gas cell can have)
HoldsNone(s) == \E prefix \in {"", "Mixed Gas ", "N/A "} : s = prefix \o "None"

\* C8: for a WPS with no gas field populated, the 'Shielding Gas' cell of the
\* welding-parameters table is not blank and does not hold the text 'None'.
C8_ShieldingGasCell ==
    (/\ response.kind = "pdf" /\ response.route = "wps"
     /\ response.record["shielding_gas_composition"] = None
     /\ response.record["gas_flow_rate"] = None) =>
        LET cell == response.story[5].rows[5][1]
        IN /\ cell.t = "str"
           /\ cell.s # ""
           /\ ~HoldsNone(cell.s)

\* C9: a document request for a stored record never fails on the shape of the
\* record's data: the only error it can end in is a record or company not found.
C9_NeverRaisesOnData ==
    (response.kind = "error" /\ response.status = 500 /\ "route" \in DOMAIN response) =>
        response.exc = "HTTPException"

-----------------------------------------------------------------------------
(* WPQR rows: models/wpqr.py, schemas/wpqr.py, main.py create_wpqr / update_wpqr *)

MaxWpqr == 1
WpqrIds == 1 .. MaxWpqr
WpqrNumbers == {"WPQR-001"}
\* the verdicts a WPQRCreate payload carries in overall_result
OverallResults == {"Qualified", "Not Qualified", "pass", "FAIL", ""}
\* a note longer than a notes cell
LongNote == "Root bend, no open defects over 3 mm"

WPQRColumns ==
    {"id", "company_id", "wps_id", "wpqr_number", "test_date", "welder_name",
     "welder_qualification", "actual_joint_design", "actual_base_material",
     "base_metal_thickness", "actual_filler_material", "actual_welding_position",
     "actual_preheat_temp", "actual_interpass_temp", "actual_current",
     "actual_voltage", "actual_travel_speed", "actual_heat_input",
     "tensile_strength", "tensile_location", "tensile_result", "bend_test_type",
     "bend_test_angle", "bend_test_result", "bend_test_notes", "impact_test_temp",
     "impact_energy_weld", "impact_energy_haz", "impact_result",
     "macro_examination_result", "macro_notes", "ndt_method", "ndt_standard",
     "ndt_result", "ndt_report_number", "overall_result",
     "qualified_thickness_range", "qualified_positions", "qualified_materials",
     "tested_by", "witnessed_by", "approved_by", "approved_date", "created_at",
     "updated_at"}

\* the columns of WPQR that are nullable=False
WPQRRequired == {"company_id", "wpqr_number", "overall_result"}

\* a WPQRCreate payload: the required fields, the test date, and the optional
\* fields either all null or all filled, the verdicts in lower case or capitalised
WPQRCreate(company_id, wps_id, number, overall_result, test_date, filled) ==
    Dict(<< <<"company_id", Num(company_id)>>, <<"wps_id", wps_id>>,
            <<"wpqr_number", Str(number)>>, <<"overall_result", Str(overall_result)>>,
            <<"test_date", test_date>> >>)
    @@ (IF filled # "none"
        THEN LET pass == Str(IF filled = "lower" THEN "pass" ELSE "Pass")
                 fail == Str(IF filled = "lower" THEN "fail" ELSE "Fail")
             IN Dict(<< <<"welder_name", Str("I. Petrov")>>,
                        <<"welder_qualification", Str("NAKS-1")>>,
                        <<"actual_base_material", Str("09G2S")>>,
                        <<"actual_welding_position", Str("PA")>>,
                        <<"actual_current", Num(150)>>,
                        <<"actual_voltage", Float(22)>>,
                        <<"actual_travel_speed", Float(25)>>,
                        <<"actual_heat_input", Float(1)>>,
                        <<"tensile_strength", Float(510)>>,
                        <<"tensile_result", pass>>,
                        <<"bend_test_type", Str("Face")>>,
                        <<"bend_test_angle", Num(180)>>,
                        <<"bend_test_result", pass>>,
                        <<"bend_test_notes", Str(LongNote)>>,
                        <<"impact_test_temp", Num(0 - 20)>>,
                        <<"impact_energy_weld", Float(47)>>,
                        <<"impact_result", fail>>,
                        <<"tested_by", Str("Laboratory")>>,
                        <<"approved_by", Str("Chief welder")>> >>)
        ELSE <<>>)

\* WPQRModel(**payload) after commit and refresh: every column of the row, null
\* where the payload has none and the column has no default
WPQRModel(id, payload) ==
    [k \in WPQRColumns |->
        IF k = "id" THEN Num(id)
        ELSE IF k = "created_at" THEN Datetime(today)
        ELSE IF k \in DOMAIN payload THEN payload[k] ELSE None]

\* the id the database gives the next row: one past the largest id in use
NextWpqrId ==
    IF \A id \in WpqrIds : wpqr_records[id] = NoRow THEN 1
    ELSE 1 + CHOOSE i \in WpqrIds :
                 /\ wpqr_records[i] # NoRow
                 /\ \A j \in WpqrIds : wpqr_records[j] # NoRow => j <= i

create_wpqr(payload) ==
    /\ IF payload["company_id"].n \notin companies
       THEN /\ response' = [kind |-> "error", status |-> 404, detail |-> "Company not found"]
            /\ UNCHANGED wpqr_records
       ELSE IF /\ Truthy(payload["wps_id"])
               /\ (payload["wps_id"].n \notin WpsIds \/ wps_records[payload["wps_id"].n] = NoRow)
       THEN /\ response' = [kind |-> "error", status |-> 404, detail |-> "WPS not found"]
            /\ UNCHANGED wpqr_records
       ELSE IF \E id \in WpqrIds :
                 /\ wpqr_records[id] # NoRow
                 /\ wpqr_records[id]["company_id"] = payload["company_id"]
                 /\ wpqr_records[id]["wpqr_number"] = payload["wpqr_number"]
       THEN /\ response' = [kind |-> "error", status |-> 400, detail |-> "already exists"]
            /\ UNCHANGED wpqr_records
       ELSE /\ NextWpqrId \in WpqrIds
            /\ wpqr_records' =
                   [wpqr_records EXCEPT ![NextWpqrId] = WPQRModel(NextWpqrId, payload)]
            /\ response' = [kind |-> "json", status |-> 201]
    /\ UNCHANGED <<today, companies, certificates, wps_records, arg, fontvars, logovars>>

\* update_wpqr with a WPQRUpdate payload that sets one field (exclude_unset keeps an
\* explicit null); the commit fails on a null in a NOT NULL column
update_wpqr(id, field, value) ==
    /\ IF wpqr_records[id] = NoRow
       THEN /\ response' = [kind |-> "error", status |-> 404, detail |-> "WPQR not found"]
            /\ UNCHANGED wpqr_records
       ELSE IF field \in WPQRRequired /\ value = None
       THEN /\ response' = [kind |-> "error", status |-> 500,
                            detail |-> "Internal server error: IntegrityError"]
            /\ UNCHANGED wpqr_records
       ELSE /\ wpqr_records' = [wpqr_records EXCEPT ![id][field] = value]
            /\ response' = [kind |-> "json", status |-> 200]
    /\ UNCHANGED <<today, companies, certificates, wps_records, arg, fontvars, logovars>>

delete_wpqr(id) ==
    /\ IF wpqr_records[id] = NoRow
       THEN /\ response' = [kind |-> "error", status |-> 404, detail |-> "WPQR not found"]
            /\ UNCHANGED wpqr_records
       ELSE /\ wpqr_records' = [wpqr_records EXCEPT ![id] = NoRow]
            /\ response' = [kind |-> "json", status |-> 200]
    /\ UNCHANGED <<today, companies, certificates, wps_records, arg, fontvars, logovars>>

-----------------------------------------------------------------------------
(* WPQR document, detailed path: pdf_generator.py generate_wpqr_pdf and          *)
(* WPQRPDFGenerator                                                            *)

\* the wpqr_data dict the endpoint builds from the WPQR row
wpqr_data_of(wpqr, now) ==
    Dict(<<
        <<"wpqr_number", Getattr(wpqr, "wpqr_number", Str("N/A"))>>,
        <<"title", Getattr(wpqr, "title", Str("WPQR Document"))>>,
        <<"revision", Getattr(wpqr, "revision", Str("0"))>>,
        <<"test_date", DateOrDefault(wpqr, "test_date", now, Strftime(now))>>,
        <<"welder_name", Getattr(wpqr, "welder_name", Str("N/A"))>>,
        <<"welder_qualification", Getattr(wpqr, "welder_qualification", Str("N/A"))>>,
        <<"welder_stamp_number", Getattr(wpqr, "welder_stamp_number", Str("N/A"))>>,
        <<"welding_code", Getattr(wpqr, "welding_code", Str("N/A"))>>,
        <<"base_metal_specification",
            Getattr(wpqr, "base_metal_specification",
                    Getattr(wpqr, "actual_base_material", Str("N/A")))>>,
        <<"welding_process", Getattr(wpqr, "welding_process", Str("N/A"))>>,
        <<"welding_position",
            Getattr(wpqr, "welding_position",
                    Getattr(wpqr, "actual_welding_position", Str("N/A")))>>,
        <<"current_type", Getattr(wpqr, "current_type", Str("N/A"))>>,
        <<"amperage_actual",
            Getattr(wpqr, "amperage_actual", Getattr(wpqr, "actual_current", Str("N/A")))>>,
        <<"voltage_actual",
            Getattr(wpqr, "voltage_actual", Getattr(wpqr, "actual_voltage", Str("N/A")))>>,
        <<"travel_speed_actual",
            Getattr(wpqr, "travel_speed_actual",
                    Getattr(wpqr, "actual_travel_speed", Str("N/A")))>>,
        <<"heat_input",
            Getattr(wpqr, "heat_input", Getattr(wpqr, "actual_heat_input", Str("N/A")))>>,
        <<"visual_inspection_result",
            Getattr(wpqr, "visual_inspection_result", Str("N/A"))>>,
        <<"visual_inspection_notes", Getattr(wpqr, "visual_inspection_notes", Str("N/A"))>>,
        <<"tensile_test_result",
            Getattr(wpqr, "tensile_test_result", Getattr(wpqr, "tensile_result", Str("N/A")))>>,
        <<"tensile_strength_mpa",
            Getattr(wpqr, "tensile_strength_mpa",
                    Getattr(wpqr, "tensile_strength", Str("N/A")))>>,
        <<"elongation_percent", Getattr(wpqr, "elongation_percent", Str("N/A"))>>,
        <<"bend_test_result", Getattr(wpqr, "bend_test_result", Str("N/A"))>>,
        <<"bend_test_type", Getattr(wpqr, "bend_test_type", Str("N/A"))>>,
        <<"bend_test_angle", Getattr(wpqr, "bend_test_angle", Str("N/A"))>>,
        <<"bend_test_notes", Getattr(wpqr, "bend_test_notes", Str("N/A"))>>,
        <<"impact_test_result",
            Getattr(wpqr, "impact_test_result", Getattr(wpqr, "impact_result", Str("N/A")))>>,
        <<"impact_test_temperature",
            Getattr(wpqr, "impact_test_temperature",
                    Getattr(wpqr, "impact_test_temp", Str("N/A")))>>,
        <<"impact_energy_j",
            Getattr(wpqr, "impact_energy_j", Getattr(wpqr, "impact_energy_weld", Str("N/A")))>>,
        <<"overall_result", Getattr(wpqr, "overall_result", Str("Pending"))>>,
        <<"valid_from", DateOrDefault(wpqr, "valid_from", now, Strftime(now))>>,
        <<"valid_until", DateOrDefault(wpqr, "valid_until", now, Str("TBD"))>>,
        <<"tested_by", Getattr(wpqr, "tested_by", Str("N/A"))>>,
        <<"approved_by", Getattr(wpqr, "approved_by", Str("N/A"))>>,
        <<"remarks", Getattr(wpqr, "remarks", Str("No remarks"))>>
    >>)

\* the wps_data dict of the WPQR endpoint: two fields of the linked WPS, if any
wpqr_wps_data_of(wps) ==
    Dict(<< <<"wps_number",
                IF wps # None THEN Getattr(wps, "wps_number", Str("N/A")) ELSE Str("N/A")>>,
            <<"joint_design",
                IF wps # None
                THEN Getattr(wps, "joint_design", Getattr(wps, "joint_type", Str("N/A")))
                ELSE Str("N/A")>> >>)

create_wpqr_header(wpqr_data, wps_data, company_data, now) ==
    Table("header", <<
        << Str(Format(Get(company_data, "name", Str("Company Name")))),
           Str("WELDING PROCEDURE QUALIFICATION RECORD"),
           Str("WPQR No: " \o Format(Get(wpqr_data, "wpqr_number", Str("N/A")))) >>,
        << Get(company_data, "address", Str("Address not specified")),
           Str(Format(Get(wpqr_data, "title", Str("WPQR Title")))),
           Str("Rev: " \o Format(Get(wpqr_data, "revision", Str("0")))) >>,
        << Str(""),
           Str("Qualified WPS: " \o Format(Get(wps_data, "wps_number", Str("N/A")))),
           Str("Test Date: " \o Format(Get(wpqr_data, "test_date", Strftime(now)))) >> >>)

create_wpqr_basic_info(wpqr_data, wps_data) ==
    Table("basic_info", <<
        << Str("QUALIFICATION DETAILS") >>,
        << Str("Welding Code"), Str("Base Material"), Str("Welding Process"),
           Str("Position"), Str("Joint Type") >>,
        << Get(wpqr_data, "welding_code", Str("N/A")),
           Get(wpqr_data, "base_metal_specification", Str("N/A")),
           Get(wpqr_data, "welding_process", Str("N/A")),
           Get(wpqr_data, "welding_position", Str("N/A")),
           Get(wps_data, "joint_design", Str("N/A")) >> >>)

create_wpqr_welder_info(wpqr_data) ==
    Table("welder_info", <<
        << Str("WELDER INFORMATION") >>,
        << Str("Welder Name"), Str("Qualification"), Str("Stamp Number"),
           Str("Position Qualified") >>,
        << Get(wpqr_data, "welder_name", Str("N/A")),
           Get(wpqr_data, "welder_qualification", Str("N/A")),
           Get(wpqr_data, "welder_stamp_number", Str("N/A")),
           Get(wpqr_data, "welding_position", Str("N/A")) >> >>)

create_wpqr_actual_parameters(wpqr_data) ==
    Table("actual_parameters", <<
        << Str("ACTUAL WELDING PARAMETERS") >>,
        << Str("Current Type"), Str("Amperage (A)"), Str("Voltage (V)"),
           Str("Travel Speed (mm/min)"), Str("Heat Input (kJ/mm)") >>,
        << Get(wpqr_data, "current_type", Str("N/A")),
           Str(Format(Get(wpqr_data, "amperage_actual", Str("N/A")))),
           Str(Format(Get(wpqr_data, "voltage_actual", Str("N/A")))),
           Str(Format(Get(wpqr_data, "travel_speed_actual", Str("N/A")))),
           Str(Format(Get(wpqr_data, "heat_input", Str("Calculated")))) >> >>)

\* _get_result_symbol: the check mark and the cross are written (+) and (x)
get_result_symbol(result) ==
    IF result = Str("pass") THEN Str("(+) PASS")
    ELSE IF result = Str("fail") THEN Str("(x) FAIL")
    ELSE Str("- N/T")

\* a truncation that also shortens a text of exactly max_length characters
TruncateTextInclusive(text, max_length) ==
    IF ~Truthy(text) \/ text = Str("N/A") THEN Str("N/A")
    ELSE IF Len(text.s) >= max_length
         THEN Str(SubSeq(text.s, 1, max_length) \o "...")
         ELSE text

\* a truncation that keeps the end of the text instead of its beginning
TruncateTextTail(text, max_length) ==
    IF ~Truthy(text) \/ text = Str("N/A") THEN Str("N/A")
    ELSE IF Len(text.s) > max_length
         THEN Str(SubSeq(text.s, Len(text.s) - max_length + 1, Len(text.s)) \o "...")
         ELSE text

\* _truncate_text(text, max_length)
truncate_text(text, max_length) ==
    IF ~Truthy(text) \/ text = Str("N/A") THEN Str("N/A")
    ELSE IF Len(text.s) > max_length
         THEN Str(SubSeq(text.s, 1, max_length) \o "...")
         ELSE text

create_wpqr_test_results(wpqr_data) ==
    Table("test_results", <<
        << Str("MECHANICAL TEST RESULTS") >>,
        << Str("Test Type"), Str("Result"), Str("Value"), Str("Standard"), Str("Notes") >>,
        << Str("Visual Inspection"),
           get_result_symbol(Get(wpqr_data, "visual_inspection_result", None)),
           Str("-"), Str("-"),
           truncate_text(Get(wpqr_data, "visual_inspection_notes", Str("N/A")), 30) >>,
        << Str("Tensile Test"),
           get_result_symbol(Get(wpqr_data, "tensile_test_result", None)),
           Str(Format(Get(wpqr_data, "tensile_strength_mpa", Str("N/A"))) \o " MPa"),
           Str("As per code"),
           Str("Elongation: " \o Format(Get(wpqr_data, "elongation_percent", Str("N/A")))
               \o "%") >>,
        << Str("Bend Test"),
           get_result_symbol(Get(wpqr_data, "bend_test_result", None)),
           Str(Format(Get(wpqr_data, "bend_test_angle", Str("N/A"))) \o " deg"),
           Get(wpqr_data, "bend_test_type", Str("N/A")),
           truncate_text(Get(wpqr_data, "bend_test_notes", Str("N/A")), 30) >>,
        << Str("Impact Test"),
           get_result_symbol(Get(wpqr_data, "impact_test_result", None)),
           Str(Format(Get(wpqr_data, "impact_energy_j", Str("N/A"))) \o " J"),
           Str("@ " \o Format(Get(wpqr_data, "impact_test_temperature", Str("N/A")))
               \o " C"),
           Str("Charpy V-notch") >> >>)

\* the background of the overall-result cell: green for PASS, red for FAIL, orange
\* for anything else
result_color(overall_result) ==
    IF overall_result = "PASS" THEN "green"
    ELSE IF overall_result = "FAIL" THEN "red"
    ELSE "orange"

create_wpqr_conclusion(wpqr_data) ==
    LET overall_result == UpperOf(Get(wpqr_data, "overall_result", Str("pending")))
    IN IF IsRaise(overall_result) THEN overall_result
       ELSE [t |-> "Table", name |-> "conclusion",
             background |-> result_color(overall_result.s),
             rows |-> <<
               << Str("QUALIFICATION RESULT") >>,
               << Str("OVERALL RESULT: " \o overall_result.s) >>,
               << Str("Valid From"), Str("Valid Until"), Str("Tested By"),
                  Str("Approved By") >>,
               << Get(wpqr_data, "valid_from", Str("N/A")),
                  Get(wpqr_data, "valid_until", Str("N/A")),
                  Get(wpqr_data, "tested_by", Str("N/A")),
                  Get(wpqr_data, "approved_by", Str("N/A")) >> >>]

\* WPQRPDFGenerator.generate_wpqr_pdf: the story in order (spacers left out), or
\* the first exception a block raises
WPQRPDFGenerator_generate_wpqr_pdf(wpqr_data, wps_data, company_data, now) ==
    LET story == << create_wpqr_header(wpqr_data, wps_data, company_data, now),
                    create_wpqr_basic_info(wpqr_data, wps_data),
                    create_wpqr_welder_info(wpqr_data),
                    create_wpqr_actual_parameters(wpqr_data),
                    create_wpqr_test_results(wpqr_data),
                    create_wpqr_conclusion(wpqr_data) >>
    IN IF FirstRaise(story) # None THEN FirstRaise(story) ELSE List(story)

-----------------------------------------------------------------------------
(* WPQR document, simple path: pdf_generator.py build_wpqr_pdf_simple *)

\* the days of the year
Days == 1 .. (31 + 28 + 31 + 30 + 31 + 30 + 31 + 31 + 30 + 31 + 30 + 31)

\* datetime.fromisoformat(s): the date whose ISO text is s, or ValueError
fromisoformat(s) ==
    IF \E d \in Days : IsoFormat(d) = s
    THEN Datetime(CHOOSE d \in Days : IsoFormat(d) = s)
    ELSE Raise("ValueError: Invalid isoformat string")

\* _fmt_date(d)
fmt_date(d) ==
    IF ~Truthy(d) THEN Str("-")
    ELSE IF d.t = "datetime" THEN Strftime(d.d)
    ELSE LET parsed == fromisoformat(Format(d))
         IN IF IsRaise(parsed) THEN Str(Format(d)) ELSE Strftime(parsed.d)

\* _draw_kv: the text drawn for a value, str(value) if value else "-"
draw_kv(value) == IF Truthy(value) THEN Format(value) ELSE "-"

\* str(v or "-")
StrOrDash(v) == Str(IF Truthy(v) THEN Format(v) ELSE "-")

\* build_wpqr_pdf_simple: the text drawn for each key, named by what it shows; wps
\* and company are ORM objects or None
build_wpqr_pdf_simple(wpqr, wps, company) ==
    Dict(<<
        <<"company_name", draw_kv(Getattr(company, "name", Str("-")))>>,
        <<"company_address", draw_kv(Getattr(company, "address", Str("-")))>>,
        <<"wpqr_number",
            draw_kv(IF Truthy(wpqr["wpqr_number"]) THEN wpqr["wpqr_number"]
                    ELSE Str("ID " \o Format(wpqr["id"])))>>,
        <<"test_date", draw_kv(fmt_date(wpqr["test_date"]))>>,
        <<"overall_result",
            draw_kv(IF Truthy(wpqr["overall_result"]) THEN wpqr["overall_result"]
                    ELSE Str("-"))>>,
        <<"welder_name", draw_kv(Getattr(wpqr, "welder_name", Str("-")))>>,
        <<"welder_qualification", draw_kv(Getattr(wpqr, "welder_qualification", Str("-")))>>,
        <<"current_type", draw_kv(Getattr(wpqr, "current_type", Str("-")))>>,
        <<"amperage_actual", draw_kv(StrOrDash(Getattr(wpqr, "amperage_actual", Str(""))))>>,
        <<"voltage_actual", draw_kv(StrOrDash(Getattr(wpqr, "voltage_actual", Str(""))))>>,
        <<"travel_speed_actual",
            draw_kv(StrOrDash(Getattr(wpqr, "travel_speed_actual", Str(""))))>>,
        <<"visual_inspection_result",
            draw_kv(Getattr(wpqr, "visual_inspection_result", Str("-")))>>,
        <<"tensile_strength_mpa",
            draw_kv(StrOrDash(Getattr(wpqr, "tensile_strength_mpa", Str(""))))>>,
        <<"elongation_percent",
            draw_kv(StrOrDash(Getattr(wpqr, "elongation_percent", Str(""))))>>,
        <<"bend_test_result", draw_kv(Getattr(wpqr, "bend_test_result", Str("-")))>>,
        <<"impact_energy_j", draw_kv(StrOrDash(Getattr(wpqr, "impact_energy_j", Str(""))))>>,
        <<"approved_by", draw_kv(Getattr(wpqr, "approved_by", Str("-")))>>,
        <<"valid_from", draw_kv(fmt_date(Getattr(wpqr, "valid_from", None)))>>,
        <<"valid_until", draw_kv(fmt_date(Getattr(wpqr, "valid_until", None)))>>,
        <<"remarks", draw_kv(Getattr(wpqr, "remarks", Str("-")))>>
    >>)
    @@ (IF wps # None
        THEN Dict(<<
            <<"wps_number",
                draw_kv(Str(Format(wps["wps_number"]) \o " (rev "
                            \o (IF Truthy(wps["revision"]) THEN Format(wps["revision"])
                                ELSE "0") \o ")"))>>,
            <<"welding_process",
                draw_kv(IF Truthy(wps["welding_process"]) THEN wps["welding_process"]
                        ELSE Str("-"))>>,
            <<"base_material_spec", draw_kv(Getattr(wps, "base_material_spec", Str("-")))>>,
            <<"thickness_range",
                draw_kv(Str(Format(Getattr(wps, "base_material_thickness_min", Str("-")))
                            \o "-"
                            \o Format(Getattr(wps, "base_material_thickness_max", Str("-")))
                            \o " mm"))>> >>)
        ELSE <<>>)

-----------------------------------------------------------------------------
(* GET /api/pdf/wpqr/{wpqr_id}?simple=... *)

\* the endpoint from its second query on: wpqr is the row the first query returned
wpqr_pdf_response(wpqr_id, wpqr, simple) ==
    LET wps == IF /\ Truthy(Getattr(wpqr, "wps_id", None))
                  /\ wpqr["wps_id"].n \in WpsIds
                  /\ wps_records[wpqr["wps_id"].n] # NoRow
               THEN wps_records[wpqr["wps_id"].n]
               ELSE None
        company == IF wpqr["company_id"].n \in companies
                   THEN CompanyRow(wpqr["company_id"].n)
                   ELSE None
        ok == [kind |-> "pdf", route |-> "wpqr", id |-> wpqr_id,
               status |-> 200, media_type |-> "application/pdf",
               filename |-> "WPQR_"
                   \o (IF Truthy(wpqr["wpqr_number"])
                       THEN Format(wpqr["wpqr_number"])
                       ELSE Format(wpqr["id"])) \o ".pdf",
               simple |-> simple, record |-> wpqr, wps |-> wps,
               data |-> <<>>, story |-> <<>>, kv |-> <<>>,
               generator |-> "none", company |-> company]
    IN
    IF simple
    THEN [ok EXCEPT !.kv = build_wpqr_pdf_simple(wpqr, wps, company),
                    !.generator = "build_wpqr_pdf_simple"]
    ELSE IF company = None
    THEN PdfError("wpqr", wpqr_id, "HTTPException", "404: Company not found")
    ELSE LET wpqr_data == wpqr_data_of(wpqr, today)
             wps_data == wpqr_wps_data_of(wps)
             company_data == company_data_of(company)
             failed == FirstRaise(ValuesOf(wpqr_data, DOMAIN wpqr_data))
         IN IF failed # None
            THEN PdfError("wpqr", wpqr_id, ExcType(failed.e), ExcMessage(failed.e))
            ELSE LET pdf_bytes ==
                       WPQRPDFGenerator_generate_wpqr_pdf(wpqr_data, wps_data,
                                                          company_data, today)
                 IN IF IsRaise(pdf_bytes)
                    THEN GeneratorError("wpqr", wpqr_id, ExcType(pdf_bytes.e),
                                        ExcMessage(pdf_bytes.e),
                                        "WPQRPDFGenerator", company)
                    ELSE [ok EXCEPT !.data = wpqr_data, !.story = pdf_bytes.l,
                                    !.generator = "WPQRPDFGenerator"]

\* the endpoint, its queries and the build taken in one step
generate_wpqr_pdf(wpqr_id, simple) ==
    /\ response' =
        IF wpqr_id \notin WpqrIds \/ wpqr_records[wpqr_id] = NoRow
        THEN PdfError("wpqr", wpqr_id, "HTTPException", "404: WPQR not found")
        ELSE wpqr_pdf_response(wpqr_id, wpqr_records[wpqr_id], simple)
    /\ UNCHANGED <<today, companies, certificates, wps_records, wpqr_records, arg, fontvars, logovars>>

InitWpqr ==
    /\ today = StartDay
    /\ companies = CompanyIds
    /\ certificates = [id \in CertIds |-> NoRow]
    /\ wps_records = [id \in WpsIds |-> NoRow]
    /\ wpqr_records = [id \in WpqrIds |-> NoRow]
    /\ arg = None
    /\ response = NoResponse
    /\ FontsImported
    /\ NoLogos

NextWpqr ==
    \/ \E n \in WpsNumbers :
          create_wps(WPSCreate(1, n, TRUE, "both", TRUE, Str("PA,PB")))
    \/ \E id \in WpsIds : delete_wps(id)
    \/ \E c \in {1, 3}, w \in {None, Num(1)}, n \in WpqrNumbers, o \in OverallResults,
          d \in {None, Datetime(StartDay - 30)}, f \in {"none", "lower", "title"} :
          create_wpqr(WPQRCreate(c, w, n, o, d, f))
    \/ \E id \in WpqrIds :
          \/ update_wpqr(id, "overall_result", Str("PASS"))
          \/ update_wpqr(id, "overall_result", None)
          \/ update_wpqr(id, "welder_name", None)
    \/ \E id \in WpqrIds : delete_wpqr(id)
    \/ \E id \in WpqrIds \cup {MaxWpqr + 1}, simple \in BOOLEAN :
          generate_wpqr_pdf(id, simple)

SpecWpqr == InitWpqr /\ [][NextWpqr]_vars

\* the canonical fields with two source names: the name tried first, the name tried
\* second
WPQRAliases ==
    { <<"base_metal_specification", "actual_base_material">>,
      <<"welding_position", "actual_welding_position">>,
      <<"amperage_actual", "actual_current">>,
      <<"voltage_actual", "actual_voltage">>,
      <<"travel_speed_actual", "actual_travel_speed">>,
      <<"heat_input", "actual_heat_input">>,
      <<"tensile_test_result", "tensile_result">>,
      <<"tensile_strength_mpa", "tensile_strength">>,
      <<"impact_test_result", "impact_result">>,
      <<"impact_test_temperature", "impact_test_temp">>,
      <<"impact_energy_j", "impact_energy_weld">> }

\* C4: in the detailed WPQR mapping a field with two source names holds the value
\* of the first name that is present and not null, a present but null name being
\* passed over, and the default 'N/A' when neither name yields a value.
C4_AliasResolution ==
    (response.kind = "pdf" /\ response.route = "wpqr" /\ ~response.simple) =>
        \A a \in WPQRAliases :
            LET r == response.record
                has(name) == name \in DOMAIN r /\ r[name] # None
            IN response.data[a[1]] =
                   IF has(a[1]) THEN r[a[1]]
                   ELSE IF has(a[2]) THEN r[a[2]]
                   ELSE Str("N/A")

\* the fields with two source names that the simple path draws
SimpleAliasKeys ==
    {"amperage_actual", "voltage_actual", "travel_speed_actual",
     "tensile_strength_mpa", "impact_energy_j"}

\* C5: a record that supplies a value under the second name of a field only
\* resolves, on either path, to what the same record resolves to with the value
\* under the first name only.
C5_AliasEquivalence ==
    (response.kind = "pdf" /\ response.route = "wpqr") =>
        \A a \in WPQRAliases :
            LET r == response.record
                renamed == [k \in (DOMAIN r \ {a[2]}) \cup {a[1]} |->
                               IF k = a[1] THEN r[a[2]] ELSE r[k]]
            IN (a[1] \notin DOMAIN r /\ a[2] \in DOMAIN r /\ r[a[2]] # None) =>
                   IF response.simple
                   THEN a[1] \in SimpleAliasKeys =>
                            response.kv[a[1]] =
                                build_wpqr_pdf_simple(renamed, response.wps, None)[a[1]]
                   ELSE response.data[a[1]] = wpqr_data_of(renamed, today)[a[1]]

\* C6: the overall-result cell of the conclusion block is green when
\* overall_result is 'pass' or 'qualified' in any letter case, red when it is
\* 'fail' or 'not qualified' in any letter case, and orange for any other value,
\* the empty string included.
C6_VerdictColour ==
    (response.kind = "pdf" /\ response.route = "wpqr" /\ ~response.simple) =>
        LET verdict == UpperText(response.record["overall_result"].s)
        IN response.story[6].background =
               IF verdict \in {"PASS", "QUALIFIED"} THEN "green"
               ELSE IF verdict \in {"FAIL", "NOT QUALIFIED"} THEN "red"
               ELSE "orange"

-----------------------------------------------------------------------------
(* Date coercion on the two paths: _fmt_date on the simple path, the            *)
(* conditional strftime of the wpqr_data mapping on the detailed path           *)

MaxDateDay == 40
DateDays == 1 .. MaxDateDay

\* the values a date attribute is coerced from: null, a datetime, the ISO text of
\* a date, a text that is no date
DateLikeValues ==
    {None, Str(""), Str("not a date"), Str("15.01.2026")}
        \cup {Datetime(d) : d \in DateDays}
        \cup {Str(IsoFormat(d)) : d \in DateDays}

\* the date attributes the WPQR paths coerce
DateFields == {"test_date", "valid_from", "valid_until"}

\* the simple path: _fmt_date(getattr(wpqr, field, None))
simple_date(field) ==
    /\ response' = [kind |-> "date", path |-> "simple", field |-> field, input |-> arg,
                    value |-> fmt_date(Getattr([x \in {field} |-> arg], field, None))]
    /\ UNCHANGED <<today, companies, certificates, wps_records, wpqr_records, arg, fontvars, logovars>>

\* the detailed path: the entry of wpqr_data for the field
detailed_date(field) ==
    /\ response' = [kind |-> "date", path |-> "detailed", field |-> field, input |-> arg,
                    value |-> wpqr_data_of([x \in {field} |-> arg], today)[field]]
    /\ UNCHANGED <<today, companies, certificates, wps_records, wpqr_records, arg, fontvars, logovars>>

InitDate ==
    /\ today = StartDay
    /\ companies = CompanyIds
    /\ certificates = [id \in CertIds |-> NoRow]
    /\ wps_records = [id \in WpsIds |-> NoRow]
    /\ wpqr_records = [id \in WpqrIds |-> NoRow]
    /\ arg \in DateLikeValues
    /\ response = NoResponse
    /\ FontsImported
    /\ NoLogos

NextDate ==
    \/ \E field \in DateFields : simple_date(field)
    \/ \E field \in DateFields : detailed_date(field)

SpecDate == InitDate /\ [][NextDate]_vars

-----------------------------------------------------------------------------
(* The welding-positions field: the split of the endpoint's mapping and the     *)
(* join of the composer's positions cell                                        *)

\* the values the field is normalised from: null, the empty text, a comma-joined
\* text, an already split list
PositionValues ==
    {None, Str(""), List(<<>>)}
        \cup {Str(Join(",", l)) : l \in PositionLists}
        \cup {List(l) : l \in PositionLists}

\* the endpoint: the welding_positions entry of wps_data for a record whose
\* welding_positions is the value
normalize_positions ==
    /\ response' = [kind |-> "positions", step |-> "mapping", input |-> arg,
                    value |-> wps_data_of([x \in {"welding_positions"} |-> arg],
                                          today)["welding_positions"]]
    /\ UNCHANGED <<today, companies, certificates, wps_records, wpqr_records, arg, fontvars, logovars>>

\* the composer: the positions cell for a wps_data whose welding_positions is the
\* value
positions_cell ==
    /\ response' = [kind |-> "positions", step |-> "cell", input |-> arg,
                    value |-> PositionsCell([x \in {"welding_positions"} |-> arg])]
    /\ UNCHANGED <<today, companies, certificates, wps_records, wpqr_records, arg, fontvars, logovars>>

InitPositions ==
    /\ today = StartDay
    /\ companies = CompanyIds
    /\ certificates = [id \in CertIds |-> NoRow]
    /\ wps_records = [id \in WpsIds |-> NoRow]
    /\ wpqr_records = [id \in WpqrIds |-> NoRow]
    /\ arg \in PositionValues
    /\ response = NoResponse
    /\ FontsImported
    /\ NoLogos

NextPositions == normalize_positions \/ positions_cell

SpecPositions == InitPositions /\ [][NextPositions]_vars

-----------------------------------------------------------------------------
(* Free-text truncation: _truncate_text and the notes cells of the WPQR        *)
(* test-results table                                                          *)

MaxTextLen == 34
\* a note of which every prefix is a text to truncate
NoteText == "Root bend, no open defects over 3 mm, accepted by the laboratory"
\* the texts: null, empty, the placeholder, and the prefixes of two notes
TruncateInputs ==
    {None, Str(""), Str("N/A")}
        \cup {Str(SubSeq(NoteText, 1, k)) : k \in 1 .. MaxTextLen}
        \cup {Str(SubSeq(NoteText, 12, 11 + k)) : k \in 1 .. MaxTextLen}
\* the maximum lengths: the one the notes cells use and two around a short text
TruncateLengths == {3, 10, 30}

\* one call of _truncate_text
truncate_once(n) ==
    /\ response' = [kind |-> "truncate", times |-> 1, n |-> n, input |-> arg,
                    once |-> truncate_text(arg, n),
                    value |-> truncate_text(arg, n)]
    /\ UNCHANGED <<today, companies, certificates, wps_records, wpqr_records, arg, fontvars, logovars>>

\* _truncate_text applied to its own result
truncate_twice(n) ==
    /\ response' = [kind |-> "truncate", times |-> 2, n |-> n, input |-> arg,
                    once |-> truncate_text(arg, n),
                    value |-> truncate_text(truncate_text(arg, n), n)]
    /\ UNCHANGED <<today, companies, certificates, wps_records, wpqr_records, arg, fontvars, logovars>>

\* the notes cells of the test-results table for a wpqr_data whose notes are the
\* text
notes_cells ==
    /\ LET table == create_wpqr_test_results(
                        [x \in {"visual_inspection_notes", "bend_test_notes"} |-> arg])
       IN response' = [kind |-> "notes", input |-> arg,
                       visual |-> table.rows[3][5], bend |-> table.rows[5][5]]
    /\ UNCHANGED <<today, companies, certificates, wps_records, wpqr_records, arg, fontvars, logovars>>

InitTruncate ==
    /\ today = StartDay
    /\ companies = CompanyIds
    /\ certificates = [id \in CertIds |-> NoRow]
    /\ wps_records = [id \in WpsIds |-> NoRow]
    /\ wpqr_records = [id \in WpqrIds |-> NoRow]
    /\ arg \in TruncateInputs
    /\ response = NoResponse
    /\ FontsImported
    /\ NoLogos

NextTruncate ==
    \/ \E n \in TruncateLengths : truncate_once(n)
    \/ \E n \in TruncateLengths : truncate_twice(n)
    \/ notes_cells

SpecTruncate == InitTruncate /\ [][NextTruncate]_vars

\* C12 as stated: _truncate_text returns a text of at most n characters
\* unchanged and otherwise its first n characters followed by '...', and the
\* visual-inspection and bend-test notes cells hold the note truncated at 30.
C12_TruncationAsStated ==
    LET rule(text, n) == IF Len(text.s) <= n THEN text
                         ELSE Str(SubSeq(text.s, 1, n) \o "...")
    IN /\ (response.kind = "truncate" /\ response.times = 1 /\ response.input.t = "str") =>
              response.value = rule(response.input, response.n)
       /\ (response.kind = "notes" /\ response.input.t = "str") =>
              /\ response.visual = rule(response.input, 30)
              /\ response.bend = rule(response.input, 30)

\* C12: _truncate_text returns the placeholder 'N/A' for a null or empty text,
\* a non-empty text of at most n characters unchanged and otherwise its first n
\* characters followed by '...', and the visual-inspection and bend-test notes
\* cells hold the note truncated at 30.
C12_Truncation ==
    LET rule(text, n) == IF text = None \/ text = Str("") THEN Str("N/A")
                         ELSE IF Len(text.s) <= n THEN text
                         ELSE Str(SubSeq(text.s, 1, n) \o "...")
    IN /\ (response.kind = "truncate" /\ response.times = 1) =>
              response.value = rule(response.input, response.n)
       /\ response.kind = "notes" =>
              /\ response.visual = rule(response.input, 30)
              /\ response.bend = rule(response.input, 30)

C12_Witness ==
    /\ response.kind = "notes"
    /\ response.input.t = "str"
    /\ Len(response.input.s) > 30
    /\ response.bend = Str("Root bend, no open defects ove...")

\* C13: truncating the result of a truncation gives that result again, for every
\* text, the null, the empty and the placeholder included.
C13_TruncationIdempotent ==
    (response.kind = "truncate" /\ response.times = 2) =>
        response.value = response.once

C13_Witness ==
    /\ response.kind = "truncate"
    /\ response.times = 2
    /\ response.input.t = "str"
    /\ Len(response.input.s) > response.n
    /\ response.once # response.input

-----------------------------------------------------------------------------
(* The block sequence of a composed document *)

\* C14: the story of a WPS document and of a detailed WPQR document is a header
\* table, then three to five titled tables, then a free-text section, then a
\* signature grid, whatever the record holds.
C14_BlockSequence ==
    (response.kind = "pdf" /\ response.story # <<>>) =>
        LET story == response.story
            n == Len(story)
        IN /\ n >= 6 /\ n <= 8
           /\ story[1].t = "Table" /\ story[1].name = "header"
           /\ \A i \in 2 .. n - 2 : story[i].t = "Table"
           /\ story[n - 1].t = "Paragraphs"
           /\ story[n].t = "Table" /\ story[n].name \in {"signatures", "conclusion"}

-----------------------------------------------------------------------------
(* The style binding over the life of a process: the import of                 *)
(* pdf_generator.py, the font files changing on disk, and PDF requests that    *)
(* read BODY_FONT and BOLD_FONT while they build a document                    *)

\* a file of FONT_DIR is added, removed or replaced
set_font_file(f, st) ==
    /\ font_files[f] # st
    /\ font_files' = [font_files EXCEPT ![f] = st]
    /\ UNCHANGED <<today, companies, certificates, wps_records, wpqr_records, arg, logovars,
                   response, BODY_FONT, BOLD_FONT, registered, requests>>

\* the import of pdf_generator.py by main.py: the module body calls
\* _register_fonts() once; a module is executed once per process
register_fonts ==
    /\ ~registered
    /\ LET r == register_fonts_result(font_files)
       IN /\ BODY_FONT' = r.body
          /\ BOLD_FONT' = r.bold
          /\ response' = [kind |-> "fonts", files |-> font_files, body |-> r.body,
                          bold |-> r.bold, raised |-> r.raised, warning |-> r.warning]
    /\ registered' = TRUE
    /\ UNCHANGED <<today, companies, certificates, wps_records, wpqr_records, arg, logovars,
                   font_files, requests>>

\* a request that resolves the fonts again from the files when it starts
RequestStartResolving(r) ==
    /\ registered
    /\ requests[r].pc = "idle"
    /\ BODY_FONT' = register_fonts_result(font_files).body
    /\ BOLD_FONT' = register_fonts_result(font_files).bold
    /\ requests' = [requests EXCEPT ![r] =
                       [pc |-> "styles", body |-> BODY_FONT', bold |-> BOLD_FONT']]
    /\ UNCHANGED <<today, companies, certificates, wps_records, wpqr_records, arg, logovars,
                   response, font_files, registered>>

\* a PDF request starts: the generator is constructed and _setup_custom_styles
\* reads BODY_FONT and BOLD_FONT into its paragraph styles; the router serves
\* requests only once the module is imported
request_start(r) ==
    /\ registered
    /\ requests[r].pc = "idle"
    /\ requests' = [requests EXCEPT ![r] =
                       [pc |-> "styles", body |-> BODY_FONT, bold |-> BOLD_FONT]]
    /\ UNCHANGED <<today, companies, certificates, wps_records, wpqr_records, arg, logovars,
                   response, font_files, BODY_FONT, BOLD_FONT, registered>>

\* the WPS row the requests of this part build a document of
SampleWps == WPSModel(1, WPSCreate(1, "WPS-001", FALSE, "none", FALSE, None))

\* the request builds its tables, whose styles read BODY_FONT and BOLD_FONT, and
\* answers
request_build(r) ==
    /\ requests[r].pc = "styles"
    /\ LET pdf_content == WPSPDFGenerator_generate_wps_pdf(
                              wps_data_of(SampleWps, today),
                              company_data_of(CompanyRow(1)), today)
       IN response' = [kind |-> "pdf", route |-> "wps", id |-> 1, request |-> r,
                       status |-> 200, media_type |-> "application/pdf",
                       record |-> SampleWps, data |-> wps_data_of(SampleWps, today),
                       story |-> pdf_content.l,
                       style_fonts |-> <<requests[r].body, requests[r].bold>>,
                       table_fonts |-> <<BODY_FONT, BOLD_FONT>>]
    /\ requests' = [requests EXCEPT ![r] = [pc |-> "idle"]]
    /\ UNCHANGED <<today, companies, certificates, wps_records, wpqr_records, arg, logovars,
                   font_files, BODY_FONT, BOLD_FONT, registered>>

InitFonts ==
    /\ today = StartDay
    /\ companies = CompanyIds
    /\ certificates = [id \in CertIds |-> NoRow]
    /\ wps_records = [id \in WpsIds |-> NoRow]
    /\ wpqr_records = [id \in WpqrIds |-> NoRow]
    /\ arg = None
    /\ response = NoResponse
    /\ font_files \in [FontFiles -> FontStates]
    /\ BODY_FONT = HelveticaFamily[1]
    /\ BOLD_FONT = HelveticaFamily[2]
    /\ registered = FALSE
    /\ requests = [r \in RequestIds |-> [pc |-> "idle"]]
    /\ NoLogos

NextFonts ==
    \/ \E f \in FontFiles, st \in FontStates : set_font_file(f, st)
    \/ register_fonts
    \/ \E r \in RequestIds : request_start(r)
    \/ \E r \in RequestIds : request_build(r)

SpecFonts == InitFonts /\ [][NextFonts]_vars

C16_FallbackOrder ==
    response.kind = "fonts" =>
        LET loads(regular, bold) ==
                response.files[regular] = "ok" /\ response.files[bold] = "ok"
        IN <<response.body, response.bold>> =
               IF loads("arial.ttf", "arialbd.ttf") THEN ArialFamily
               ELSE IF loads("DejaVuSans.ttf", "DejaVuSans-Bold.ttf") THEN DejaVuFamily
               ELSE HelveticaFamily

\* C17: once the module is imported the binding never changes, whatever the
\* requests and the font files do, and every request reads the one pair, in its
\* paragraph styles and in its tables.
C17_BindingReadOnly ==
    /\ [][registered =>
             /\ registered'
             /\ BODY_FONT' = BODY_FONT
             /\ BOLD_FONT' = BOLD_FONT]_vars
    /\ [](\A r \in RequestIds :
              requests[r].pc = "styles" =>
                  <<requests[r].body, requests[r].bold>> = <<BODY_FONT, BOLD_FONT>>)
    /\ [](response.kind = "pdf" =>
              /\ response.style_fonts = <<BODY_FONT, BOLD_FONT>>
              /\ response.table_fonts = <<BODY_FONT, BOLD_FONT>>)

C17_Witness ==
    /\ registered
    /\ \A r \in RequestIds : requests[r].pc = "styles"
    /\ register_fonts_result(font_files).body # BODY_FONT

-----------------------------------------------------------------------------
(* PDF requests beside the other handlers: the endpoints of pdf_generator.py    *)
(* query the record, then its company, then build; a handler of main.py that    *)
(* runs in the thread pool can commit between two of these queries             *)

\* DELETE /companies/{company_id}: the Company row goes, and with it (cascade
\* "all, delete-orphan") its WPS and WPQR rows; a WPQR of another company that
\* referred to a deleted WPS keeps a null wps_id. The welders of the company and
\* their certificates go too; this specification stores none
delete_company(company_id) ==
    /\ IF company_id \notin companies
       THEN /\ response' = [kind |-> "error", status |-> 404, detail |-> "Company not found"]
            /\ UNCHANGED <<companies, wps_records, wpqr_records, logo_url>>
       ELSE LET gone == {id \in DOMAIN wps_records :
                            /\ wps_records[id] # NoRow
                            /\ wps_records[id]["company_id"] = Num(company_id)}
            IN /\ companies' = companies \ {company_id}
               /\ wps_records' = [id \in DOMAIN wps_records |->
                                     IF id \in gone THEN NoRow ELSE wps_records[id]]
               /\ wpqr_records' =
                      [q \in DOMAIN wpqr_records |->
                          IF wpqr_records[q] = NoRow THEN NoRow
                          ELSE IF wpqr_records[q]["company_id"] = Num(company_id) THEN NoRow
                          ELSE IF \E id \in gone : wpqr_records[q]["wps_id"] = Num(id)
                          THEN [wpqr_records[q] EXCEPT !["wps_id"] = None]
                          ELSE wpqr_records[q]]
               /\ logo_url' = [logo_url EXCEPT ![company_id] = None]
               /\ response' = [kind |-> "json", status |-> 200]
    /\ UNCHANGED <<today, certificates, arg, fontvars, logo_files, logo_uuids>>

PdfRoutes == {"wps", "wpqr"}

\* the PDF requests that can be in flight together
PdfRequests == {"first", "second"}

\* the first query of a PDF endpoint, run for request r: the record, or the 404 the
\* except clause turns into a 500; arg[r] holds the request while it is being served
pdf_query_record(r, route, id, simple) ==
    /\ arg[r] = None
    /\ LET row == IF route = "wps"
                  THEN (IF id \in WpsIds THEN wps_records[id] ELSE NoRow)
                  ELSE (IF id \in WpqrIds THEN wpqr_records[id] ELSE NoRow)
       IN IF row = NoRow
          THEN /\ response' = PdfError(route, id, "HTTPException",
                                       IF route = "wps" THEN "404: WPS not found"
                                       ELSE "404: WPQR not found")
               /\ UNCHANGED arg
          ELSE /\ arg' = [arg EXCEPT ![r] = [route |-> route, id |-> id,
                                             simple |-> simple, record |-> row]]
               /\ UNCHANGED response
    /\ UNCHANGED <<today, companies, certificates, wps_records, wpqr_records, fontvars, logovars>>

\* a respond step whose generator would keep its working state in one place shared
\* by the requests: finishing one request drops the others in flight
PdfRespondShared(r) ==
    /\ arg[r] # None
    /\ response' = IF arg[r].route = "wps"
                   THEN wps_pdf_response(arg[r].id, arg[r].record)
                   ELSE wpqr_pdf_response(arg[r].id, arg[r].record, arg[r].simple)
    /\ arg' = [q \in DOMAIN arg |-> None]
    /\ UNCHANGED <<today, companies, certificates, wps_records, wpqr_records, fontvars, logovars>>

\* the rest of the endpoint for request r: the company query, the mapping, the
\* build with a generator of its own, the response
pdf_respond(r) ==
    /\ arg[r] # None
    /\ response' = IF arg[r].route = "wps"
                   THEN wps_pdf_response(arg[r].id, arg[r].record)
                   ELSE wpqr_pdf_response(arg[r].id, arg[r].record, arg[r].simple)
    /\ arg' = [arg EXCEPT ![r] = None]
    /\ UNCHANGED <<today, companies, certificates, wps_records, wpqr_records, fontvars, logovars>>

InitPdf ==
    /\ today = StartDay
    /\ companies = CompanyIds
    /\ certificates = [id \in CertIds |-> NoRow]
    /\ wps_records = [id \in WpsIds |-> NoRow]
    /\ wpqr_records = [id \in WpqrIds |-> NoRow]
    /\ arg = [r \in PdfRequests |-> None]
    /\ response = NoResponse
    /\ FontsImported
    /\ NoLogos

NextPdf ==
    \/ \E c \in CompanyIds, n \in WpsNumbers :
          create_wps(WPSCreate(c, n, TRUE, "both", TRUE, Str("PA,PB")))
    \/ \E id \in WpsIds : update_wps(id, "status", None)
    \/ \E c \in CompanyIds, w \in {None, Num(1)}, n \in WpqrNumbers :
          create_wpqr(WPQRCreate(c, w, n, "Qualified", Datetime(StartDay - 30), "lower"))
    \/ \E id \in WpqrIds : update_wpqr(id, "overall_result", None)
    \/ \E c \in CompanyIds : delete_company(c)
    \/ \E r \in PdfRequests, id \in WpsIds \cup {MaxWps + 1} :
          pdf_query_record(r, "wps", id, FALSE)
    \/ \E r \in PdfRequests, id \in WpqrIds \cup {MaxWpqr + 1}, simple \in BOOLEAN :
          pdf_query_record(r, "wpqr", id, simple)
    \/ \E r \in PdfRequests : pdf_respond(r)

SpecPdf == InitPdf /\ [][NextPdf]_vars

\* the response of a PDF endpoint that got as far as calling a document builder
BuilderCalled ==
    /\ "generator" \in DOMAIN response
    /\ response.generator # "none"

\* C18: no document builder (WPSPDFGenerator.generate_wps_pdf,
\* WPQRPDFGenerator.generate_wpqr_pdf, build_wpqr_pdf_simple) is called for a request
\* whose record has no Company row: whenever a builder was called, simple=true
\* included, the company had been resolved
C18_CompanyResolvedBeforeBuild ==
    BuilderCalled => response.company # None

\* the text sub occurs in the text s
Contains(s, sub) ==
    \E i \in 1 .. Len(s) :
        /\ i + Len(sub) - 1 <= Len(s)
        /\ SubSeq(s, i, i + Len(sub) - 1) = sub

\* the longest block sequence a document has
MaxBlocks == 7

\* C19: a failure raised while the blocks of a document are built is reported as a
\* RenderFailure that carries the position, in the block sequence, of the block that
\* failed
C19_RenderFailurePosition ==
    (BuilderCalled /\ response.kind = "error") =>
        /\ response.exc = "RenderFailure"
        /\ \E position \in 1 .. MaxBlocks : Contains(response.detail, ToString(position))

\* the texts build_wpqr_pdf_simple draws for every record
SimpleKeys ==
    {"company_name", "company_address", "wpqr_number", "test_date", "overall_result",
     "welder_name", "welder_qualification", "current_type", "amperage_actual",
     "voltage_actual", "travel_speed_actual", "visual_inspection_result",
     "tensile_strength_mpa", "elongation_percent", "bend_test_result",
     "impact_energy_j", "approved_by", "valid_from", "valid_until", "remarks"}

\* the body of a success response is the whole document: every block of the
\* sequence, none of them a failure, or every text of the simple layout
CompleteDocument(r) ==
    IF r.route = "wps"
    THEN /\ Len(r.story) = 7
         /\ \A i \in 1 .. Len(r.story) : ~IsRaise(r.story[i])
    ELSE IF r.simple
    THEN SimpleKeys \subseteq DOMAIN r.kv
    ELSE /\ Len(r.story) = 6
         /\ \A i \in 1 .. Len(r.story) : ~IsRaise(r.story[i])

ErrorPrefix == "Error generating PDF: "

\* C20: a PDF request ends either in a success response (200, application/pdf) whose
\* body is the complete document, or in an error response whose detail names the
\* failure and which carries no document; never in a part of a document
C20_CompleteOrError ==
    "route" \in DOMAIN response =>
        \/ /\ response.kind = "pdf"
           /\ response.status = 200
           /\ response.media_type = "application/pdf"
           /\ CompleteDocument(response)
        \/ /\ response.kind = "error"
           /\ response.status = 500
           /\ Len(response.detail) > Len(ErrorPrefix)
           /\ SubSeq(response.detail, 1, Len(ErrorPrefix)) = ErrorPrefix
           /\ DOMAIN response \cap {"story", "kv", "media_type", "filename"} = {}

\* a WPS build that failed in its last block (the status of the record is null),
\* after six blocks had been laid out
C20_Witness ==
    /\ BuilderCalled
    /\ response.kind = "error"
    /\ response.route = "wps"
    /\ Contains(response.detail, "'upper'")

-----------------------------------------------------------------------------
(* The response headers of a generated document *)

\* the document number of the record a response was built from
NumberOf(r) == IF r.route = "wps" THEN r.record["wps_number"] ELSE r.record["wpqr_number"]

\* C21: a successful PDF response has the PDF content type and the filename
\* WPS_<number-or-id>.pdf or WPQR_<number-or-id>.pdf: the document number when it is
\* not empty, the numeric id otherwise, for both document types
C21_Filename ==
    ("route" \in DOMAIN response /\ response.kind = "pdf") =>
        /\ response.media_type = "application/pdf"
        /\ response.filename =
               (IF response.route = "wps" THEN "WPS_" ELSE "WPQR_")
               \o (IF Truthy(NumberOf(response)) THEN Format(NumberOf(response))
                   ELSE Format(response.record["id"]))
               \o ".pdf"

\* C22: generation is deterministic: two generations of the same record under the
\* same style binding give the same document content whatever the wall-clock time of
\* each; the endpoints take no timestamp argument, so the injected timestamp is the
\* same (absent) in both
C22_Deterministic ==
    [][(/\ response.kind = "pdf" /\ "route" \in DOMAIN response
        /\ response'.kind = "pdf" /\ "route" \in DOMAIN response'
        /\ response'.route = response.route
        /\ response'.record = response.record
        /\ BODY_FONT' = BODY_FONT /\ BOLD_FONT' = BOLD_FONT)
       => /\ response'.story = response.story
          /\ response'.data = response.data]_vars

-----------------------------------------------------------------------------
(* What a PDF request writes *)

\* C24: a PDF request (WPS, WPQR simple or detailed) writes nothing that outlives
\* it: each of its steps leaves the stored companies, WPS, WPQR and certificate rows,
\* the font files and the style binding as they were, leaves every other request in
\* flight as it was, and the response it ends in is the one built from its own
\* record alone
C24_NoStateWritten ==
    [][\A r \in PdfRequests :
          arg'[r] # arg[r] =>
              /\ UNCHANGED <<today, companies, certificates, wps_records, wpqr_records,
                             font_files, BODY_FONT, BOLD_FONT, registered>>
              /\ \A q \in PdfRequests \ {r} : arg'[q] = arg[q]
              /\ arg[r] # None =>
                    response' = IF arg[r].route = "wps"
                                THEN wps_pdf_response(arg[r].id, arg[r].record)
                                ELSE wpqr_pdf_response(arg[r].id, arg[r].record,
                                                       arg[r].simple)]_vars

\* one request has been answered with a document while another is still in flight
C24_Witness ==
    /\ response.kind = "pdf"
    /\ "route" \in DOMAIN response
    /\ \E r \in PdfRequests : arg[r] # None /\ arg[r].route # response.route

-----------------------------------------------------------------------------
(* The verdict cells of the WPQR test-results table *)

\* the symbol of a stored verdict read without regard to letter case
SymbolOf(stored) ==
    IF stored.t = "str" /\ UpperText(stored.s) = "PASS" THEN Str("(+) PASS")
    ELSE IF stored.t = "str" /\ UpperText(stored.s) = "FAIL" THEN Str("(x) FAIL")
    ELSE Str("- N/T")

\* C25: in the test-results table of a detailed WPQR document the tensile, bend and
\* impact verdict cells show the pass symbol for a stored 'pass' in any letter case,
\* the fail symbol for 'fail' in any letter case, and not-tested only otherwise
C25_VerdictSymbols ==
    (response.kind = "pdf" /\ "route" \in DOMAIN response /\ response.route = "wpqr"
       /\ ~response.simple) =>
        LET rows == response.story[5].rows
        IN /\ rows[4][2] = SymbolOf(response.record["tensile_result"])
           /\ rows[5][2] = SymbolOf(response.record["bend_test_result"])
           /\ rows[6][2] = SymbolOf(response.record["impact_result"])

\* the fields both WPQR renderers display
SharedKeys ==
    {"amperage_actual", "voltage_actual", "travel_speed_actual",
     "tensile_strength_mpa", "impact_energy_j", "welder_name", "approved_by"}

\* C26: for the record of a WPQR document, every field that both the simple and the
\* detailed renderer display (actual current, voltage and travel speed, tensile
\* strength, impact energy, welder name, approved by) and for which the detailed
\* mapping finds a value shows that same value in the simple layout
C26_RenderersAgree ==
    (response.kind = "pdf" /\ "route" \in DOMAIN response /\ response.route = "wpqr") =>
        LET detailed == wpqr_data_of(response.record, today)
            simple == build_wpqr_pdf_simple(response.record, response.wps, None)
        IN \A k \in SharedKeys :
               (detailed[k] # None /\ detailed[k] # Str("N/A")) =>
                   simple[k] = Format(detailed[k])

\* C28: a PDF request for a WPS or WPQR id that does not exist, or whose company does
\* not exist, is answered with status 404 and the detail 'WPS not found', 'WPQR not
\* found' or 'Company not found'
C28_NotFoundIs404 ==
    ("route" \in DOMAIN response /\ response.kind = "error"
       /\ response.exc = "HTTPException") =>
        /\ response.status = 404
        /\ response.detail \in {"WPS not found", "WPQR not found", "Company not found"}

-----------------------------------------------------------------------------
(* WPS numbers: main.py create_wps, update_wps and delete_wps over several rows *)

\* the WPS rows this part can store
MaxNumberedWps == 2
NumberValues == {"WPS-001", "WPS-002"}

InitNumbers ==
    /\ today = StartDay
    /\ companies = CompanyIds
    /\ certificates = [id \in CertIds |-> NoRow]
    /\ wps_records = [id \in 1 .. MaxNumberedWps |-> NoRow]
    /\ wpqr_records = <<>>
    /\ arg = None
    /\ response = NoResponse
    /\ FontsImported
    /\ NoLogos

NextNumbers ==
    \/ \E c \in CompanyIds, n \in NumberValues, text \in BOOLEAN :
          create_wps(WPSCreate(c, n, text, "none", FALSE, None))
    \/ \E id \in 1 .. MaxNumberedWps, n \in NumberValues :
          update_wps(id, "wps_number", Str(n))
    \/ \E id \in 1 .. MaxNumberedWps : delete_wps(id)

SpecNumbers == InitNumbers /\ [][NextNumbers]_vars

\* C29: no two stored WPS rows of the same company have the same wps_number
C29_NumbersUnique ==
    \A i, j \in DOMAIN wps_records :
        (/\ i # j
         /\ wps_records[i] # NoRow /\ wps_records[j] # NoRow
         /\ wps_records[i]["company_id"] = wps_records[j]["company_id"])
        => wps_records[i]["wps_number"] # wps_records[j]["wps_number"]

-----------------------------------------------------------------------------
(* Company logos: main.py validate_image_file, save_logo_file, delete_old_logo,  *)
(* upload_company_logo and delete_company_logo                                 *)

ALLOWED_EXTENSIONS == {".jpg", ".jpeg", ".png", ".gif", ".webp"}
\* 5 * 1024 * 1024 bytes
MAX_FILE_SIZE == 5242880
\* the uploads that get as far as drawing a file name
MaxUploads == 2

\* an UploadFile: its name, its content type and the size of its content
UploadFile(filename, content_type, size) ==
    [filename |-> filename, content_type |-> content_type, size |-> size]

\* the uploads tried
UploadFiles ==
    { UploadFile("logo.png", "image/png", 2048),
      UploadFile("LOGO.PNG", "image/png", 2048),
      UploadFile("logo.exe", "image/png", 2048),
      UploadFile("logo.png", "text/plain", 2048),
      UploadFile("logo.png", "image/png", MAX_FILE_SIZE + 1) }

\* Path(filename).suffix.lower(): the text from the last dot on, in lower case
suffix_lower(filename) ==
    LET dots == {i \in 1 .. Len(filename) : SubSeq(filename, i, i) = "."}
        raw == IF dots = {} THEN ""
               ELSE SubSeq(filename, CHOOSE i \in dots : \A j \in dots : j <= i,
                           Len(filename))
    IN IF raw = ".PNG" THEN ".png" ELSE raw

\* validate_image_file: the detail of the 400 it raises, or None
validate_image_file(file) ==
    IF suffix_lower(file.filename) \notin ALLOWED_EXTENSIONS
    THEN Raise("HTTPException: 400 unsupported format")
    ELSE IF SubSeq(file.content_type, 1, 6) # "image/"
    THEN Raise("HTTPException: 400 not an image")
    ELSE None

\* the URL save_logo_file makes for the n-th uuid4 it draws
LogoUrl(company_id, n, ext) ==
    "/static/logos/company_" \o ToString(company_id) \o "_" \o ToString(n) \o ext

\* save_logo_file with files in LOGOS_DIR: the files afterwards and the URL returned
\* or the 500 raised; open() or the copy can fail, a failed copy leaves the file
save_logo_file(file, company_id, files, n, outcome) ==
    LET url == LogoUrl(company_id, n, suffix_lower(file.filename))
    IN CASE outcome = "ok" -> [files |-> files \cup {url}, result |-> Str(url)]
         [] outcome = "open_fails" ->
              [files |-> files, result |-> Raise("HTTPException: 500 save failed")]
         [] outcome = "copy_fails" ->
              [files |-> files \cup {url},
               result |-> Raise("HTTPException: 500 save failed")]

\* delete_old_logo with files in LOGOS_DIR: the files afterwards; a failed unlink is
\* printed and passed over
delete_old_logo(url, files, unlink_ok) ==
    IF /\ Truthy(url)
       /\ Len(url.s) >= 14 /\ SubSeq(url.s, 1, 14) = "/static/logos/"
       /\ url.s \in files
       /\ unlink_ok
    THEN files \ {url.s}
    ELSE files

\* POST /companies/{company_id}/upload-logo
upload_company_logo(company_id, file, unlink_ok, outcome) ==
    /\ IF company_id \notin companies
       THEN /\ response' = [kind |-> "error", status |-> 404, detail |-> "Company not found"]
            /\ UNCHANGED logovars
       ELSE IF validate_image_file(file) # None
       THEN /\ response' = [kind |-> "error", status |-> 400,
                            detail |-> validate_image_file(file).e]
            /\ UNCHANGED logovars
       ELSE IF file.size > MAX_FILE_SIZE
       THEN /\ response' = [kind |-> "error", status |-> 400, detail |-> "file too large"]
            /\ UNCHANGED logovars
       ELSE /\ logo_uuids < MaxUploads
            /\ LET kept == IF Truthy(logo_url[company_id])
                           THEN delete_old_logo(logo_url[company_id], logo_files, unlink_ok)
                           ELSE logo_files
                   saved == save_logo_file(file, company_id, kept, logo_uuids + 1, outcome)
               IN /\ logo_uuids' = logo_uuids + 1
                  /\ logo_files' = saved.files
                  /\ IF IsRaise(saved.result)
                     THEN /\ response' = [kind |-> "error", status |-> 500,
                                          detail |-> saved.result.e]
                          /\ UNCHANGED logo_url
                     ELSE /\ logo_url' = [logo_url EXCEPT ![company_id] = saved.result]
                          /\ response' = [kind |-> "json", status |-> 200,
                                          logo_url |-> saved.result]
    /\ UNCHANGED <<today, companies, certificates, wps_records, wpqr_records, arg, fontvars>>

\* DELETE /companies/{company_id}/delete-logo
delete_company_logo(company_id, unlink_ok) ==
    /\ IF company_id \notin companies
       THEN /\ response' = [kind |-> "error", status |-> 404, detail |-> "Company not found"]
            /\ UNCHANGED logovars
       ELSE IF ~Truthy(logo_url[company_id])
       THEN /\ response' = [kind |-> "error", status |-> 404, detail |-> "no logo"]
            /\ UNCHANGED logovars
       ELSE /\ logo_files' = delete_old_logo(logo_url[company_id], logo_files, unlink_ok)
            /\ logo_url' = [logo_url EXCEPT ![company_id] = None]
            /\ response' = [kind |-> "json", status |-> 200, logo_url |-> None]
            /\ UNCHANGED logo_uuids
    /\ UNCHANGED <<today, companies, certificates, wps_records, wpqr_records, arg, fontvars>>

InitLogo ==
    /\ today = StartDay
    /\ companies = CompanyIds
    /\ certificates = [id \in CertIds |-> NoRow]
    /\ wps_records = <<>>
    /\ wpqr_records = <<>>
    /\ arg = None
    /\ response = NoResponse
    /\ FontsImported
    /\ NoLogos

NextLogo ==
    \/ \E c \in CompanyIds \cup {3}, file \in UploadFiles, unlink_ok \in BOOLEAN,
          outcome \in {"ok", "open_fails", "copy_fails"} :
          upload_company_logo(c, file, unlink_ok, outcome)
    \/ \E c \in CompanyIds \cup {3}, unlink_ok \in BOOLEAN :
          delete_company_logo(c, unlink_ok)

SpecLogo == InitLogo /\ [][NextLogo]_vars

\* C30: after any logo upload attempt, accepted, rejected or failed while saving, a
\* logo_url that is not null is the URL of a file that exists in LOGOS_DIR
C30_LogoUrlHasFile ==
    \A c \in companies : logo_url[c] # None => logo_url[c].s \in logo_files

====
